---- MODULE Spec2Model ----
(***************************************************************************)
(* Purchase-pattern analysis of the Waitrose order generator               *)
(* (src/src/analyzer.js) over the order history kept in SQLite             *)
(* (src/src/database.js).                                                  *)
(*                                                                         *)
(* Numbers.  A JS number that need not be an integer (frequency,           *)
(* avg_quantity, a confidence) is an exact rational [n, d] with d > 0.     *)
(* A standard deviation is kept as its square (the variance, a rational),  *)
(* so that Math.sqrt never has to be approximated; comparisons against a   *)
(* standard deviation are made on the squares.                             *)
(* A value that may be null / undefined is <<>> (absent) or <<v>>.         *)
(* Timestamps (new Date(..)) count hours instead of milliseconds.          *)
(***************************************************************************)
EXTENDS Integers, Sequences, FiniteSets, TLC

----------------------------------------------------------------------------
(* Bounds of the model *)

MaxCount == 4         \* purchase_count of a frequency record: 1..MaxCount
MaxTotal == 6         \* total_orders of a frequency record: 1..MaxTotal
FreqDen == 10         \* frequencies handed to calculateConfidence: k / FreqDen
QDen == 4             \* avg_quantity values: k / QDen
MaxQNum == 14         \* ... for k in 0..MaxQNum
MaxInterval == 12     \* avg_interval values handed to the predictors
MaxDsl == 15          \* days_since_last_purchase: 0..MaxDsl
MaxVariance == 30     \* squares of the std_deviation values: 0..MaxVariance
MaxDay == 25          \* order dates are day numbers 0..MaxDay
MaxPurchases == 3     \* purchases of one product in a purchase-date list
MaxOrders == 4        \* orders of the history an analysis run works on
MaxDbOrders == 2      \* rows of the table orders while orders are being saved
MaxDbRows == 3        \* rows of the table order_items while orders are being saved

(* Program constants *)

HoursPerDay == 24     \* (1000 * 60 * 60 * 24) ms, counted in hours
BUFFER_DAYS == 3
OVERDUE_DAYS == 2
MinDays == 5          \* 'Days must be between 5 and 8'
MaxDays == 8
BoostCap == 10        \* purchases at which the count boost saturates
ManyPurchases == 100  \* a purchase_count far beyond the saturation point

Products == {"Milk", "Steak"}
Classifications == {"one-off", "regular", "infrequent"}
\* the CLI range of targetDays, and three weeks (beyond it)
TargetDaysSet == (MinDays..MaxDays) \cup {21}

----------------------------------------------------------------------------
(* Numbers *)

Rat(n, d) == [n |-> n, d |-> d]

\* a/b < c/d for b, d > 0, by the continued fractions of both sides (no
\* product is formed, so the comparison is exact at any magnitude).
RECURSIVE FracLT(_, _, _, _)
FracLT(a, b, c, d) ==
    LET qa == a \div b
        qc == c \div d
        ra == a % b
        rc == c % d
    IN  IF qa # qc THEN qa < qc
        ELSE IF rc = 0 THEN FALSE
        ELSE IF ra = 0 THEN TRUE
        ELSE FracLT(d, rc, b, ra)

RatLT(a, b) == FracLT(a.n, a.d, b.n, b.d)
RatGE(a, b) == ~RatLT(a, b)
RatMul(a, b) == Rat(a.n * b.n, a.d * b.d)
RatAdd(a, b) == Rat(a.n * b.d + b.n * a.d, a.d * b.d)

None == <<>>
Some(v) == <<v>>

\* JS truthiness of a number that may be null / undefined: null, undefined
\* and 0 are falsy.
Truthy(o) == o # None /\ o[1] # 0

\* Math.round: the nearest integer, halves towards +Infinity.
MathRound(r) == (2 * r.n + r.d) \div (2 * r.d)

RECURSIVE SumSeq(_)
SumSeq(s) == IF s = <<>> THEN 0 ELSE Head(s) + SumSeq(Tail(s))

----------------------------------------------------------------------------
(* classifyItems *)

REGULAR_THRESHOLD == Rat(40, 100)

\* the threshold taken as exclusive
ClassificationOfExclusive(item) ==
    IF item.purchase_count = 1 THEN "one-off"
    ELSE IF RatLT(REGULAR_THRESHOLD, item.frequency) THEN "regular"
    ELSE "infrequent"

ClassificationOf(item) ==
    IF item.purchase_count = 1 THEN "one-off"
    ELSE IF RatGE(item.frequency, REGULAR_THRESHOLD) THEN "regular"
    ELSE "infrequent"

ClassifyItem(item) ==
    [product_name       |-> item.product_name,
     purchase_count     |-> item.purchase_count,
     frequency          |-> item.frequency,
     avg_quantity       |-> item.avg_quantity,
     last_purchase_date |-> item.last_purchase_date,
     classification     |-> ClassificationOf(item)]

classifyItems(itemFrequencyData) ==
    [i \in 1..Len(itemFrequencyData) |-> ClassifyItem(itemFrequencyData[i])]

----------------------------------------------------------------------------
(* calculatePurchaseIntervals, on the rows the purchase-date query returned *)

\* new Date(order_date) of a date-only string: midnight UTC of that day.
ParseDate(day) == day * HoursPerDay

\* Math.floor((curr - prev) / (1000 * 60 * 60 * 24))
DaysBetween(prev, curr) == (ParseDate(curr) - ParseDate(prev)) \div HoursPerDay

\* The variance: mean = sum / n, sum of (x - mean)^2 divided by n, that is
\* sum of (n*x - sum)^2 over n^3.
Variance(values) ==
    LET n == Len(values)
        s == SumSeq(values)
    IN  Rat(SumSeq([i \in 1..n |-> (n * values[i] - s) * (n * values[i] - s)]),
            n * n * n)

\* the sample variance: divided by n - 1
SampleStandardDeviation(values) ==
    IF Len(values) < 2 THEN Rat(0, 1)
    ELSE Rat(Variance(values).n, Len(values) * Len(values) * (Len(values) - 1))

\* calculateStandardDeviation, as the square of what it returns.
calculateStandardDeviation(values) ==
    IF Len(values) < 2 THEN Rat(0, 1) ELSE Variance(values)

IntervalsOf(purchases) ==
    [i \in 1..(Len(purchases) - 1) |-> DaysBetween(purchases[i], purchases[i + 1])]

\* the average truncated instead of rounded
IntervalStatsTruncated(purchases) ==
    IF Len(purchases) < 2
    THEN [avg_interval |-> None, intervals |-> <<>>, std_deviation |-> None]
    ELSE LET intervals == IntervalsOf(purchases)
         IN  [avg_interval  |-> Some(SumSeq(intervals) \div Len(intervals)),
              intervals     |-> intervals,
              std_deviation |-> Some(calculateStandardDeviation(intervals))]

IntervalStats(purchases) ==
    IF Len(purchases) < 2
    THEN [avg_interval |-> None, intervals |-> <<>>, std_deviation |-> None]
    ELSE LET intervals == IntervalsOf(purchases)
         IN  [avg_interval  |-> Some(MathRound(Rat(SumSeq(intervals), Len(intervals)))),
              intervals     |-> intervals,
              std_deviation |-> Some(calculateStandardDeviation(intervals))]

----------------------------------------------------------------------------
(* calculateDaysSinceLastPurchase *)

\* the two dates subtracted the wrong way round
DaysSinceReversed(lastPurchaseDate, currentDate) ==
    (ParseDate(lastPurchaseDate) - currentDate) \div HoursPerDay

\* Math.floor((currentDate - lastPurchase) / (1000 * 60 * 60 * 24)), both in
\* hours; \div rounds towards minus infinity as Math.floor does
DaysSince(lastPurchaseDate, currentDate) ==
    (currentDate - ParseDate(lastPurchaseDate)) \div HoursPerDay

\* currentDate is absent when the caller passes none: the default parameter
\* new Date() then reads the system clock.
calculateDaysSinceLastPurchase(items, currentDate, clock) ==
    LET now == IF currentDate = None THEN clock ELSE currentDate[1]
    IN  [i \in 1..Len(items) |->
            [f \in DOMAIN items[i] \cup {"days_since_last_purchase"} |->
                IF f = "days_since_last_purchase"
                THEN DaysSince(items[i].last_purchase_date, now)
                ELSE items[i][f]]]

----------------------------------------------------------------------------
(* predictItemNeed *)

\* the overdue limit of the regular items put on the infrequent ones too
PredictNeedOverdueLimited(item, intervals, targetDays) ==
    LET avg == intervals.avg_interval
    IN  /\ item.classification \in {"regular", "infrequent"}
        /\ Truthy(avg)
        /\ avg[1] - item.days_since_last_purchase <= targetDays + BUFFER_DAYS
        /\ avg[1] - item.days_since_last_purchase >= -OVERDUE_DAYS

predictItemNeed(item, intervals, targetDays) ==
    IF item.classification = "one-off" THEN FALSE
    ELSE LET planningWindow == targetDays + BUFFER_DAYS
             avg == intervals.avg_interval
         IN  IF item.classification = "regular" /\ Truthy(avg)
             THEN LET daysTillDue == avg[1] - item.days_since_last_purchase
                  IN  daysTillDue <= planningWindow /\ daysTillDue >= -OVERDUE_DAYS
             ELSE IF item.classification = "infrequent" /\ Truthy(avg)
             THEN LET daysTillDue == avg[1] - item.days_since_last_purchase
                  IN  daysTillDue <= planningWindow
             ELSE FALSE

----------------------------------------------------------------------------
(* calculateRecommendedQuantity *)

\* large quantities rounded to the nearest integer, not the nearest even one
RecommendedQuantityPlainRound(avgQuantity, intervals, targetDays) ==
    IF intervals = None \/ ~Truthy(intervals[1].avg_interval)
       \/ intervals[1].avg_interval[1] = 0
    THEN MathRound(avgQuantity)
    ELSE LET scaledQuantity == RatMul(avgQuantity,
                                      Rat(targetDays, intervals[1].avg_interval[1]))
         IN  IF RatLT(scaledQuantity, Rat(1, 1)) THEN 1
             ELSE MathRound(scaledQuantity)

calculateRecommendedQuantity(avgQuantity, intervals, targetDays) ==
    IF intervals = None \/ ~Truthy(intervals[1].avg_interval)
       \/ intervals[1].avg_interval[1] = 0
    THEN MathRound(avgQuantity)
    ELSE LET scaleFactor == Rat(targetDays, intervals[1].avg_interval[1])
             scaledQuantity == RatMul(avgQuantity, scaleFactor)
         IN  IF RatLT(scaledQuantity, Rat(1, 1)) THEN 1
             ELSE IF RatLT(scaledQuantity, Rat(3, 1)) THEN MathRound(scaledQuantity)
             ELSE MathRound(RatMul(scaledQuantity, Rat(1, 2))) * 2

----------------------------------------------------------------------------
(* calculateConfidence *)

\* A confidence value: base * (1 - 0.3 * sqrt(variance) / avg).  The value
\* without a penalty has variance 0.
Conf(base, avg, variance) == [base |-> base, avg |-> avg, variance |-> variance]
Plain(base) == Conf(base, 1, Rat(0, 1))

\* (0.3 * sqrt(variance) / avg)^2, the square of what the penalty takes off
PenaltySq(v) == Rat(9 * v.variance.n, 100 * v.avg * v.avg * v.variance.d)

ConfLT0(v) ==
    IF v.variance.n = 0 THEN v.base.n < 0
    ELSE v.base.n > 0 /\ RatLT(Rat(1, 1), PenaltySq(v))

ConfGT1(v) ==
    IF v.variance.n = 0 THEN v.base.n > v.base.d
    ELSE /\ v.base.n > v.base.d
         /\ RatLT(PenaltySq(v),
                  Rat((v.base.n - v.base.d) * (v.base.n - v.base.d),
                      v.base.n * v.base.n))

RatMin(a, b) == IF RatLT(b, a) THEN b ELSE a

\* the lower clamp left out
MathMax0Missing(v) == v

\* Math.min(1, v), Math.max(0, v)
MathMin1(v) == IF ConfGT1(v) THEN Plain(Rat(1, 1)) ELSE v
MathMax0(v) == IF ConfLT0(v) THEN Plain(Rat(0, 1)) ELSE v

\* std_deviation / avg_interval > 0.5, on the squares
CvAboveHalf(variance, avg) == RatLT(Rat(avg * avg, 4), variance)

\* the penalty taken off the value already clamped to 1
ConfidenceClampedFirst(item, intervals) ==
    LET countBoost == RatMul(RatMin(Rat(item.purchase_count, BoostCap), Rat(1, 1)),
                             Rat(2, 10))
        boosted == RatMin(RatAdd(item.frequency, countBoost), Rat(1, 1))
    IN  IF /\ intervals # None
           /\ intervals[1].std_deviation # None
           /\ intervals[1].std_deviation[1].n # 0
           /\ intervals[1].avg_interval # None
           /\ intervals[1].avg_interval[1] > 0
           /\ CvAboveHalf(intervals[1].std_deviation[1], intervals[1].avg_interval[1])
        THEN MathMax0(Conf(boosted, intervals[1].avg_interval[1],
                           intervals[1].std_deviation[1]))
        ELSE Plain(boosted)

calculateConfidence(item, intervals) ==
    LET countBoost == RatMul(RatMin(Rat(item.purchase_count, BoostCap), Rat(1, 1)),
                             Rat(2, 10))
        boosted == RatAdd(item.frequency, countBoost)
        penalised ==
            IF /\ intervals # None
               /\ intervals[1].std_deviation # None
               /\ intervals[1].std_deviation[1].n # 0
               /\ intervals[1].avg_interval # None
               /\ intervals[1].avg_interval[1] > 0
               /\ CvAboveHalf(intervals[1].std_deviation[1],
                              intervals[1].avg_interval[1])
            THEN Conf(boosted, intervals[1].avg_interval[1],
                      intervals[1].std_deviation[1])
            ELSE Plain(boosted)
    IN  MathMax0(MathMin1(penalised))

----------------------------------------------------------------------------
(* The database: the tables orders and order_items, rows in rowid order *)

ProductList == <<"Milk", "Steak">>

\* The rows of
\*   SELECT o.order_date FROM order_items oi JOIN orders o ON oi.order_id = o.id
\*   WHERE oi.product_name = ? ORDER BY o.order_date ASC
PurchaseDates(db, productName) ==
    LET rows == SelectSeq(db.order_items, LAMBDA r : r.product_name = productName)
        dateOf(r) == (CHOOSE o \in {db.orders[i] : i \in 1..Len(db.orders)} :
                         o.id = r.order_id).order_date
    IN  SortSeq([i \in 1..Len(rows) |-> dateOf(rows[i])], LAMBDA a, b : a < b)

calculatePurchaseIntervals(db, productName) ==
    IntervalStats(PurchaseDates(db, productName))

\* One row of getItemFrequency: the GROUP BY product_name aggregates.
FrequencyRow(db, productName) ==
    LET rows == SelectSeq(db.order_items, LAMBDA r : r.product_name = productName)
        dates == PurchaseDates(db, productName)
        count == Cardinality({rows[i].order_id : i \in 1..Len(rows)})
    IN  [product_name       |-> productName,
         purchase_count     |-> count,
         total_orders       |-> Len(db.orders),
         frequency          |-> Rat(count, Len(db.orders)),
         avg_quantity       |-> Rat(SumSeq([i \in 1..Len(rows) |-> rows[i].quantity]),
                                    Len(rows)),
         last_purchase_date |-> dates[Len(dates)]]

\* ORDER BY frequency DESC, purchase_count DESC: total_orders is the same on
\* every row, so the order is by purchase_count; rows that tie stay in the
\* order of the groups (by product_name).
RECURSIVE ByCountDescending(_)
ByCountDescending(rows) ==
    IF rows = <<>> THEN <<>>
    ELSE LET rest == ByCountDescending(Tail(rows))
             ahead == SelectSeq(rest, LAMBDA r : r.purchase_count > Head(rows).purchase_count)
             behind == SelectSeq(rest, LAMBDA r : r.purchase_count <= Head(rows).purchase_count)
         IN  ahead \o <<Head(rows)>> \o behind

getItemFrequency(db, minOrders) ==
    LET groups == SelectSeq(ProductList,
                            LAMBDA p : \E i \in 1..Len(db.order_items) :
                                          db.order_items[i].product_name = p)
        rows == [i \in 1..Len(groups) |-> FrequencyRow(db, groups[i])]
    IN  ByCountDescending(SelectSeq(rows, LAMBDA r : r.purchase_count >= minOrders))

\* insertOrder: INSERT OR IGNORE on the UNIQUE order_number; ids are handed
\* out in sequence (no row is ever deleted here).
insertOrder(tbl, orderData) ==
    IF \E i \in 1..Len(tbl) : tbl[i].order_number = orderData.order_number
    THEN tbl
    ELSE Append(tbl, [id           |-> Len(tbl) + 1,
                      order_number |-> orderData.order_number,
                      order_date   |-> orderData.order_date])

\* insertOrderItems: one plain INSERT per item, in one transaction
insertOrderItems(rows, orderId, items) ==
    rows \o [i \in 1..Len(items) |->
                [order_id     |-> orderId,
                 product_name |-> items[i].product_name,
                 quantity     |-> items[i].quantity]]

----------------------------------------------------------------------------
(* generatePatternSummary *)

ItemData(item, intervals, targetDays) ==
    [name                  |-> item.product_name,
     avgFrequencyDays      |-> intervals.avg_interval,
     avgQuantity           |-> item.avg_quantity,
     lastPurchased         |-> item.last_purchase_date,
     daysSinceLastPurchase |-> item.days_since_last_purchase,
     confidence            |-> calculateConfidence(item, Some(intervals)),
     isNeeded              |-> predictItemNeed(item, intervals, targetDays)]

\* What db.prepare(..).all(productName) throws when the read fails.
ReadError(productName) == [name |-> "SqliteError", reading |-> productName]

\* the one-off items not skipped: read, and pushed as infrequent
RECURSIVE SummaryLoopNoSkip(_, _, _, _)
SummaryLoopNoSkip(items, db, targetDays, acc) ==
    IF items = <<>> THEN acc
    ELSE LET item == Head(items)
             read == [acc EXCEPT !.reads = Append(@, item.product_name)]
         IN  IF item.product_name \in db.broken
             THEN [read EXCEPT !.thrown = Some(ReadError(item.product_name))]
             ELSE LET itemData == ItemData(item,
                                           calculatePurchaseIntervals(db, item.product_name),
                                           targetDays)
                  IN  IF item.classification = "regular"
                      THEN SummaryLoopNoSkip(Tail(items), db, targetDays,
                               [read EXCEPT !.regularItems = Append(@, itemData)])
                      ELSE SummaryLoopNoSkip(Tail(items), db, targetDays,
                               [read EXCEPT !.infrequentItems = Append(@, itemData)])

\* a failed read caught and its item left out
RECURSIVE SummaryLoopCatching(_, _, _, _)
SummaryLoopCatching(items, db, targetDays, acc) ==
    IF items = <<>> THEN acc
    ELSE LET item == Head(items)
             read == [acc EXCEPT !.reads = Append(@, item.product_name)]
         IN  IF item.classification = "one-off"
             THEN SummaryLoopCatching(Tail(items), db, targetDays, acc)
             ELSE IF item.product_name \in db.broken
             THEN SummaryLoopCatching(Tail(items), db, targetDays, read)
             ELSE LET itemData == ItemData(item,
                                           calculatePurchaseIntervals(db, item.product_name),
                                           targetDays)
                  IN  IF item.classification = "regular"
                      THEN SummaryLoopCatching(Tail(items), db, targetDays,
                               [read EXCEPT !.regularItems = Append(@, itemData)])
                      ELSE SummaryLoopCatching(Tail(items), db, targetDays,
                               [read EXCEPT !.infrequentItems = Append(@, itemData)])

\* The loop over classifiedItems: acc holds regularItems and infrequentItems
\* as pushed so far, the product names whose purchase history was read, and
\* the error of a read that failed; nothing catches it, so the loop ends there.
RECURSIVE SummaryLoop(_, _, _, _)
SummaryLoop(items, db, targetDays, acc) ==
    IF items = <<>> THEN acc
    ELSE LET item == Head(items)
             read == [acc EXCEPT !.reads = Append(@, item.product_name)]
         IN  IF item.classification = "one-off"
             THEN SummaryLoop(Tail(items), db, targetDays, acc)
             ELSE IF item.product_name \in db.broken
             THEN [read EXCEPT !.thrown = Some(ReadError(item.product_name))]
             ELSE LET itemData == ItemData(item,
                                           calculatePurchaseIntervals(db, item.product_name),
                                           targetDays)
                  IN  IF item.classification = "regular"
                      THEN SummaryLoop(Tail(items), db, targetDays,
                               [read EXCEPT !.regularItems = Append(@, itemData)])
                      ELSE SummaryLoop(Tail(items), db, targetDays,
                               [read EXCEPT !.infrequentItems = Append(@, itemData)])

SummaryRun(classifiedItems, db, targetDays) ==
    SummaryLoop(classifiedItems, db, targetDays,
                [regularItems |-> <<>>, infrequentItems |-> <<>>,
                 reads |-> <<>>, thrown |-> None])

RECURSIVE MaxOf(_)
MaxOf(s) == IF Len(s) = 1 THEN s[1]
            ELSE LET m == MaxOf(Tail(s)) IN IF s[1] > m THEN s[1] ELSE m

\* the purchase_count of the first item taken for the maximum
TotalOrdersOfFirst(classifiedItems) ==
    IF classifiedItems # <<>> THEN classifiedItems[1].purchase_count ELSE 0

\* classifiedItems[0]?.purchase_count ? Math.max(...) : 0
TotalOrders(classifiedItems) ==
    IF classifiedItems # <<>> /\ classifiedItems[1].purchase_count # 0
    THEN MaxOf([i \in 1..Len(classifiedItems) |-> classifiedItems[i].purchase_count])
    ELSE 0

\* the final filter left out
NeededOnlyMissing(entries) == entries

NeededOnly(entries) == SelectSeq(entries, LAMBDA e : e.isNeeded)

generatePatternSummary(classifiedItems, db, targetDays) ==
    LET pushed == SummaryRun(classifiedItems, db, targetDays)
    IN  [regularItems    |-> NeededOnly(pushed.regularItems),
         infrequentItems |-> NeededOnly(pushed.infrequentItems),
         timeframe       |-> targetDays,
         totalOrders     |-> TotalOrders(classifiedItems)]

----------------------------------------------------------------------------
(* The analysis run: frequency rows, classification, days since the last *)
(* purchase, the prediction of each item that is no one-off, the summary *)

Prediction(item, db, targetDays) ==
    LET intervals == calculatePurchaseIntervals(db, item.product_name)
    IN  [item       |-> item,
         intervals  |-> intervals,
         confidence |-> calculateConfidence(item, Some(intervals)),
         isNeeded   |-> predictItemNeed(item, intervals, targetDays),
         recQty     |-> calculateRecommendedQuantity(item.avg_quantity, Some(intervals),
                                                     targetDays)]

PatternAnalysis(db, minOrders, currentDate, clock, targetDays) ==
    LET frequency == getItemFrequency(db, minOrders)
        classified == classifyItems(frequency)
        withDays == calculateDaysSinceLastPurchase(classified, currentDate, clock)
        analysed == SelectSeq(withDays, LAMBDA it : it.classification # "one-off")
    IN  [classified  |-> classified,
         withDays    |-> withDays,
         predictions |-> [i \in 1..Len(analysed) |-> Prediction(analysed[i], db, targetDays)],
         summary     |-> generatePatternSummary(withDays, db, targetDays)]

----------------------------------------------------------------------------
(* Inputs of the analysis functions *)

\* ProductFrequencyRecord rows: frequency is purchase_count / total_orders.
\* A purchase_count above total_orders and a negative avg_quantity are the
\* malformed shapes.
RecordQuantities == {Rat(0 - 2, QDen), Rat(QDen + 2, QDen)}

FrequencyRecords(p) ==
    {[product_name       |-> p,
      purchase_count     |-> c,
      total_orders       |-> t,
      frequency          |-> Rat(c, t),
      avg_quantity       |-> q,
      last_purchase_date |-> MaxDay] :
        c \in 1..MaxCount, t \in 1..MaxTotal, q \in RecordQuantities}

\* One record per distinct product, in any order.
RecordLists ==
    {<<>>}
    \cup {<<r>> : r \in UNION {FrequencyRecords(p) : p \in Products}}
    \cup UNION {{<<r1, r2>> : r1 \in FrequencyRecords(p1),
                              r2 \in FrequencyRecords(p2)} :
                  <<p1, p2>> \in {pp \in Products \X Products : pp[1] # pp[2]}}

Malformed(r) == r.purchase_count > r.total_orders \/ r.avg_quantity.n < 0

\* Ascending lists of k order dates, none before lo.
RECURSIVE AscendingDates(_, _)
AscendingDates(k, lo) ==
    IF k = 0 THEN {<<>>}
    ELSE UNION {{<<d>> \o s : s \in AscendingDates(k - 1, d)} : d \in lo..MaxDay}

\* A database of Len(dates) orders, inserted on those dates; product p is a
\* line item (quantity 2) of the first n[p] of them.  broken holds the
\* products whose purchase-date query throws (none in a healthy database).
RECURSIVE OrderItemRows(_, _, _)
OrderItemRows(i, k, n) ==
    IF i > k THEN <<>>
    ELSE SelectSeq([j \in 1..Len(ProductList) |->
                       [order_id |-> i, product_name |-> ProductList[j], quantity |-> 2]],
                   LAMBDA r : n[r.product_name] >= i)
         \o OrderItemRows(i + 1, k, n)

MakeDb(dates, n) ==
    [orders      |-> [i \in 1..Len(dates) |->
                         [id |-> i, order_number |-> i, order_date |-> dates[i]]],
     order_items |-> OrderItemRows(1, Len(dates), n),
     broken      |-> {}]

\* The fields calculateConfidence reads of an item and of its IntervalStats.
ConfidenceItems ==
    {[purchase_count |-> c, frequency |-> Rat(k, FreqDen)] :
        c \in (1..MaxCount) \cup {BoostCap, ManyPurchases}, k \in 1..FreqDen}

ConfidenceIntervals ==
    {None} \cup
    {Some([avg_interval |-> a, std_deviation |-> sd]) :
        a \in {None} \cup {Some(k) : k \in 0..MaxInterval},
        sd \in {None} \cup {Some(Rat(v, 1)) : v \in 0..MaxVariance}}

\* The fields predictItemNeed reads.
PredictItems ==
    {[classification |-> c, days_since_last_purchase |-> d] :
        c \in Classifications, d \in 0..MaxDsl}

AvgIntervals == {None} \cup {Some(k) : k \in 0..MaxInterval}

AvgQuantities == {Rat(k, QDen) : k \in 0..MaxQNum}

\* Items handed to generatePatternSummary: a classified frequency record (a
\* one-off, a regular at 2 of 3 orders, an infrequent at 2 of 6) with its
\* days_since_last_purchase; one item per distinct product, in any order.
SummaryItems(p) ==
    {[f \in DOMAIN ClassifyItem(r) \cup {"days_since_last_purchase"} |->
         IF f = "days_since_last_purchase" THEN d ELSE ClassifyItem(r)[f]] :
        r \in {x \in FrequencyRecords(p) :
                  /\ x.avg_quantity.n > 0
                  /\ <<x.purchase_count, x.total_orders>> \in {<<1, 2>>, <<2, 3>>, <<2, 6>>}},
        d \in {2, 12}}

SummaryLists ==
    {<<>>}
    \cup {<<i>> : i \in UNION {SummaryItems(p) : p \in Products}}
    \cup UNION {{<<i1, i2>> : i1 \in SummaryItems(p1), i2 \in SummaryItems(p2)} :
                  <<p1, p2>> \in {pp \in Products \X Products : pp[1] # pp[2]}}

\* Databases of up to MaxPurchases orders placed every gap days (0: all on
\* one day), each product bought in the first n[p] of them.
SummaryDatabases ==
    UNION {{MakeDb([i \in 1..k |-> (i - 1) * gap], n) : n \in [Products -> 0..k]} :
              <<k, gap>> \in (0..MaxPurchases) \X {0, 7, 14}}

\* Classified items whose last purchase was on day 3 or day 10, and the
\* instants (a day and an hour of that day) a current date is taken from.
DatedItems(p) ==
    {[ClassifyItem(r) EXCEPT !.last_purchase_date = d] :
        r \in {x \in FrequencyRecords(p) :
                  /\ x.avg_quantity.n > 0
                  /\ <<x.purchase_count, x.total_orders>> \in {<<1, 2>>, <<2, 3>>, <<2, 6>>}},
        d \in {3, 10}}

DatedLists ==
    {<<>>}
    \cup {<<i>> : i \in UNION {DatedItems(p) : p \in Products}}
    \cup UNION {{<<i1, i2>> : i1 \in DatedItems(p1), i2 \in DatedItems(p2)} :
                  <<p1, p2>> \in {pp \in Products \X Products : pp[1] # pp[2]}}

Instants == {day * HoursPerDay + hour : day \in 0..MaxDsl, hour \in {0, 13}}

\* The weekly databases of MaxPurchases orders with the purchase-date query
\* failing for one product or for both.
BrokenDatabases ==
    {[db EXCEPT !.broken = b] :
        db \in {MakeDb([i \in 1..MaxPurchases |-> (i - 1) * 7], n) :
                   n \in [Products -> 0..MaxPurchases]},
        b \in (SUBSET Products) \ {{}}}

\* Order histories of up to MaxOrders weekly orders, each product bought in
\* the first n[p] of them.
HistoryDatabases ==
    UNION {{MakeDb([i \in 1..k |-> (i - 1) * 7], n) : n \in [Products -> 0..k]} :
              k \in 0..MaxOrders}

\* The day of the last order of a history (0 for the empty one).
LastOrderDay(db) ==
    IF db.orders = <<>> THEN 0 ELSE db.orders[Len(db.orders)].order_date

----------------------------------------------------------------------------
(* The state: the invocation of an analysis function and what it returned *)

\* call: the invocation of an analysis function and how it ended.
\* orders, order_items: the two tables of the open database.
\* watch: one item looked at day after day (the item, its IntervalStats,
\* targetDays, the current date and the prediction made on it).
\* runs: the analysis runs made so far, each with its inputs, the reading of
\* the system clock it made and the summary it returned.
\* gen: one run of a shopping-list generation entry point, step by step.
\* sync_metadata: the row 'waitrose_orders' of the table sync_metadata.
\* det: a detectNewOrders call, step by step, and the results of the calls before it.
\* saves: the calls of the two functions saving scraped orders, each with the tables before and after it.
\* basket: a populateBasket call, step by step, and the last addItemWithRetry call made.
\* wait: a waitForOrderHistoryLoad call inside extractOrderMetadata, poll by poll.
VARIABLES call, orders, order_items, watch, runs, gen, sync_metadata, det, saves, basket, wait

vars == <<call, orders, order_items, watch, runs, gen, sync_metadata, det, saves, basket, wait>>

Idle == call.fn = "none"

\* reads: the product names whose purchase history the call queried, in
\* order; clock: what the call read off the system clock, if it read it
Completed(fn, args, outcome, result, error, reads, clock) ==
    /\ call' = [fn |-> fn, args |-> args, outcome |-> outcome, result |-> result,
                error |-> error, reads |-> reads, clock |-> clock]
    /\ UNCHANGED <<orders, order_items, watch, runs, gen, sync_metadata, det, saves, basket, wait>>

ReturnedAfter(fn, args, result, reads) ==
    Completed(fn, args, "return", result, None, reads, None)

Returned(fn, args, result) == ReturnedAfter(fn, args, result, <<>>)

Threw(fn, args, error, reads) ==
    Completed(fn, args, "throw", None, Some(error), reads, None)

NoCall == [fn |-> "none", args |-> <<>>, outcome |-> "none", result |-> <<>>,
           error |-> None, reads |-> <<>>, clock |-> None]

Init ==
    /\ call = NoCall
    /\ orders = <<>>
    /\ order_items = <<>>
    /\ watch = None
    /\ runs = <<>>
    /\ wait = None
    /\ basket = None
    /\ saves = None
    /\ det = None
    /\ sync_metadata = None
    /\ gen = None

CallClassifyItems ==
    /\ Idle
    /\ \E list \in RecordLists :
          Returned("classifyItems", <<list>>, classifyItems(list))

CallCalculatePurchaseIntervals ==
    /\ Idle
    /\ \E k \in 0..MaxPurchases :
          \E dates \in AscendingDates(k, 0) :
             LET db == MakeDb(dates, [p \in Products |-> IF p = "Milk" THEN k ELSE 0])
             IN  Returned("calculatePurchaseIntervals", <<db, "Milk">>,
                          calculatePurchaseIntervals(db, "Milk"))

CallCalculateConfidence ==
    /\ Idle
    /\ \E item \in ConfidenceItems, intervals \in ConfidenceIntervals :
          Returned("calculateConfidence", <<item, intervals>>,
                   calculateConfidence(item, intervals))

CallPredictItemNeed ==
    /\ Idle
    /\ \E item \in PredictItems, avg \in AvgIntervals, targetDays \in TargetDaysSet :
          Returned("predictItemNeed", <<item, [avg_interval |-> avg], targetDays>>,
                   predictItemNeed(item, [avg_interval |-> avg], targetDays))

CallCalculateRecommendedQuantity ==
    /\ Idle
    /\ \E q \in AvgQuantities, avg \in AvgIntervals, targetDays \in TargetDaysSet,
          given \in BOOLEAN :
          LET intervals == IF given THEN Some([avg_interval |-> avg]) ELSE None
          IN  Returned("calculateRecommendedQuantity", <<q, intervals, targetDays>>,
                       calculateRecommendedQuantity(q, intervals, targetDays))

CallCalculateDaysSinceLastPurchase ==
    /\ Idle
    /\ \E list \in DatedLists, now \in Instants, given \in BOOLEAN :
          LET currentDate == IF given THEN Some(now) ELSE None
          IN  Completed("calculateDaysSinceLastPurchase", <<list, currentDate>>, "return",
                        calculateDaysSinceLastPurchase(list, currentDate, now),
                        None, <<>>, IF given THEN None ELSE Some(now))

RunPatternAnalysis ==
    /\ Idle
    /\ \E db \in HistoryDatabases, minOrders \in {1, 2}, targetDays \in {7, MaxDays},
          ahead \in {0, 5, 12}, hour \in {0, 13}, given \in BOOLEAN :
          LET now == (LastOrderDay(db) + ahead) * HoursPerDay + hour
              currentDate == IF given THEN Some(now) ELSE None
          IN  Completed("patternAnalysis", <<db, minOrders, currentDate, targetDays>>,
                        "return",
                        PatternAnalysis(db, minOrders, currentDate, now, targetDays),
                        None, <<>>, IF given THEN None ELSE Some(now))

CallGeneratePatternSummary ==
    /\ Idle
    /\ \E list \in SummaryLists, db \in SummaryDatabases \cup BrokenDatabases,
          targetDays \in {MinDays, MaxDays} :
          LET run == SummaryRun(list, db, targetDays)
          IN  IF run.thrown # None
              THEN Threw("generatePatternSummary", <<list, db, targetDays>>,
                         run.thrown[1], run.reads)
              ELSE ReturnedAfter("generatePatternSummary", <<list, db, targetDays>>,
                                 generatePatternSummary(list, db, targetDays), run.reads)

Next ==
    \/ CallGeneratePatternSummary
    \/ CallClassifyItems
    \/ CallCalculatePurchaseIntervals
    \/ CallCalculateConfidence
    \/ CallPredictItemNeed
    \/ CallCalculateRecommendedQuantity
    \/ CallCalculateDaysSinceLastPurchase
    \/ RunPatternAnalysis

SpecAnalyzer == Init /\ [][Next]_vars

----------------------------------------------------------------------------
(* Saving orders: insertOrder and insertOrderItems on the open database *)

\* The item lists handed to insertOrderItems: one or two line items.
ItemLists ==
    {<<[product_name |-> p, quantity |-> 2]>> : p \in Products}
    \cup {<<[product_name |-> p1, quantity |-> 2], [product_name |-> p2, quantity |-> 2]>> :
             p1 \in Products, p2 \in Products}

InsertOrder ==
    /\ \E number \in 1..MaxDbOrders, date \in {0, 7} :
          orders' = insertOrder(orders, [order_number |-> number, order_date |-> date])
    /\ UNCHANGED <<call, order_items, watch, runs, gen, sync_metadata, det, saves, basket, wait>>

\* foreign_keys = ON: an order_id that is no id of orders makes the INSERT
\* throw, and the transaction leaves the table as it was
InsertOrderItems ==
    /\ \E orderId \in 1..MaxDbOrders, items \in ItemLists :
          /\ Len(order_items) + Len(items) <= MaxDbRows
          /\ order_items' =
                IF \E i \in 1..Len(orders) : orders[i].id = orderId
                THEN insertOrderItems(order_items, orderId, items)
                ELSE order_items
    /\ UNCHANGED <<call, orders, watch, runs, gen, sync_metadata, det, saves, basket, wait>>

NextDb ==
    \/ InsertOrder
    \/ InsertOrderItems

SpecDb == Init /\ [][NextDb]_vars

\* the open database as the analysis functions read it
Database == [orders |-> orders, order_items |-> order_items, broken |-> {}]

----------------------------------------------------------------------------
(* One item as the days go by: no new purchase, the current date advancing *)

\* the prediction for the item on the given current date
WatchOn(item, intervals, targetDays, today) ==
    LET timed == calculateDaysSinceLastPurchase(<<item>>, Some(today), today)[1]
    IN  [item       |-> item,
         intervals  |-> intervals,
         targetDays |-> targetDays,
         today      |-> today,
         needed     |-> predictItemNeed(timed, intervals, targetDays)]

\* The first look is on the day of the last purchase (day 3), at 00:00 or 13:00.
InitWatch ==
    /\ call = NoCall
    /\ orders = <<>>
    /\ order_items = <<>>
    /\ runs = <<>>
    /\ wait = None
    /\ basket = None
    /\ saves = None
    /\ det = None
    /\ sync_metadata = None
    /\ gen = None
    /\ \E c \in Classifications, avg \in AvgIntervals, targetDays \in {MinDays, MaxDays},
          hour \in {0, 13} :
          watch = WatchOn([classification |-> c, last_purchase_date |-> 3],
                          [avg_interval |-> avg], targetDays, ParseDate(3) + hour)

AdvanceDay ==
    /\ DaysSince(watch.item.last_purchase_date, watch.today) < MaxDsl
    /\ watch' = WatchOn(watch.item, watch.intervals, watch.targetDays,
                         watch.today + HoursPerDay)
    /\ UNCHANGED <<call, orders, order_items, runs, gen, sync_metadata, det, saves, basket, wait>>

NextWatch == AdvanceDay

SpecWatch == InitWatch /\ [][NextWatch]_vars

----------------------------------------------------------------------------
(* Analysis runs one after another, as generateShoppingListWithOptions and *)
(* the analysis script make them *)

\* The histories of MaxOrders weekly orders.
RunDatabases == {db \in HistoryDatabases : Len(db.orders) = MaxOrders}

\* A run passes its current date (the script's mockToday) or passes none and
\* lets calculateDaysSinceLastPurchase take it off the system clock, which
\* stands 5 or 12 days after the last order.
AnalysisRun ==
    /\ Len(runs) < 2
    /\ \E db \in RunDatabases, ahead \in {5, 12}, given \in BOOLEAN :
          LET now == (LastOrderDay(db) + ahead) * HoursPerDay
              currentDate == IF given THEN Some(now) ELSE None
          IN  runs' = Append(runs,
                         [db          |-> db,
                          minOrders   |-> 2,
                          targetDays  |-> 7,
                          currentDate |-> currentDate,
                          clock       |-> IF given THEN None ELSE Some(now),
                          summary     |-> PatternAnalysis(db, 2, currentDate, now, 7).summary])
    /\ UNCHANGED <<call, orders, order_items, watch, gen, sync_metadata, det, saves, basket, wait>>

NextRuns == AnalysisRun

SpecRuns == Init /\ [][NextRuns]_vars

----------------------------------------------------------------------------
(* JS values of an option: numbers (NaN is the absent number), strings as  *)
(* sequences of characters, undefined and null                             *)

NaN == None
Num(n) == [t |-> "number", v |-> Some(n)]
NaNValue == [t |-> "number", v |-> NaN]
Str(s) == [t |-> "string", v |-> s]
Undefined == [t |-> "undefined", v |-> <<>>]
Null == [t |-> "null", v |-> <<>>]

DigitChars == <<"0", "1", "2", "3", "4", "5", "6", "7", "8", "9">>
IsDigit(c) == \E k \in 1..Len(DigitChars) : DigitChars[k] = c
DigitValue(c) == (CHOOSE k \in 1..Len(DigitChars) : DigitChars[k] = c) - 1

\* the longest prefix of digits
RECURSIVE LeadingDigits(_)
LeadingDigits(s) ==
    IF s = <<>> \/ ~IsDigit(Head(s)) THEN <<>>
    ELSE <<Head(s)>> \o LeadingDigits(Tail(s))

RECURSIVE DecimalValue(_, _)
DecimalValue(ds, acc) ==
    IF ds = <<>> THEN acc
    ELSE DecimalValue(Tail(ds), Len(DigitChars) * acc + DigitValue(Head(ds)))

\* parseInt(string): an optional sign and the leading digits; NaN without a
\* digit.  (No white space, no 0x prefix in the strings used here.)
parseInt(s) ==
    LET negative == s # <<>> /\ Head(s) = "-"
        ds == LeadingDigits(IF negative THEN Tail(s) ELSE s)
    IN  IF ds = <<>> THEN NaN
        ELSE Some((IF negative THEN 0 - 1 ELSE 1) * DecimalValue(ds, 0))

\* Number(string): the whole string has to be a numeral; '' is 0
StringToNumber(s) ==
    LET negative == s # <<>> /\ Head(s) = "-"
        body == IF negative THEN Tail(s) ELSE s
    IN  IF s = <<>> THEN Some(0)
        ELSE IF body # <<>> /\ LeadingDigits(body) = body THEN parseInt(s)
        ELSE NaN

\* ToNumber, as the relational operators apply it to an operand
ToNumber(x) ==
    IF x.t = "number" THEN x.v
    ELSE IF x.t = "string" THEN StringToNumber(x.v)
    ELSE IF x.t = "null" THEN Some(0)
    ELSE NaN

\* a < b on numbers: false when either is NaN
JsLess(a, b) == a # NaN /\ b # NaN /\ a[1] < b[1]

\* daysCoverage < 5 || daysCoverage > 8
DaysOutOfRange(daysCoverage) ==
    \/ JsLess(ToNumber(daysCoverage), Some(MinDays))
    \/ JsLess(Some(MaxDays), ToNumber(daysCoverage))

----------------------------------------------------------------------------
(* Generating a shopping list: the CLI generate action, the MCP tool       *)
(* generate_shopping_list and generateShoppingListWithOptions              *)

EntryPoints == {"cli", "mcp", "core"}

\* The days option as the caller gives it: --days is a string (Undefined when
\* the flag is left out), the other two take any JSON value.
NumeralOf(n) == <<DigitChars[n + 1]>>

DaysGiven(entry) ==
    IF entry = "cli"
    THEN {Undefined, Str(<<"a", "b", "c">>), Str(<<>>), Str(<<"1", "0">>),
          Str(<<"-", "1">>)}
         \cup {Str(NumeralOf(n)) : n \in (MinDays - 1)..(MaxDays + 1)}
    ELSE {Undefined, NaNValue, Str(<<"a", "b", "c">>)}
         \cup {Num(n) : n \in (MinDays - 1)..(MaxDays + 1)}
         \cup (IF entry = "core" THEN {Null} ELSE {})

\* .option('-d, --days <number>', .., '7') and parseInt(options.days);
\* args.days ?? 7;  const { daysCoverage = 7 } = options
DaysCoverageOf(entry, given) ==
    IF entry = "cli"
    THEN [t |-> "number",
          v |-> parseInt(IF given = Undefined THEN NumeralOf(7) ELSE given.v)]
    ELSE IF entry = "mcp"
    THEN (IF given = Undefined \/ given = Null THEN Num(7) ELSE given)
    ELSE (IF given = Undefined THEN Num(7) ELSE given)

DaysError == "Days must be between 5 and 8"

\* patternSummary.regularItems.length + patternSummary.infrequentItems.length.
\* With a daysCoverage that is no number, planningWindow is NaN (or a string
\* that converts to NaN) and every daysTillDue <= planningWindow is false:
\* no item is needed.
TotalNeeded(db, daysCoverage, clock) ==
    IF daysCoverage.t = "number" /\ daysCoverage.v # NaN
    THEN LET summary == PatternAnalysis(db, 2, None, clock, daysCoverage.v[1]).summary
         IN  Len(summary.regularItems) + Len(summary.infrequentItems)
    ELSE 0

MinOrderCount == 3

\* the order count compared one too low
TooFewOrdersOffByOne(orderCount) == orderCount < MinOrderCount - 1

\* if (orderCount < 3)
TooFewOrders(orderCount) == orderCount < MinOrderCount

GenerationOf(entry, given, save, db, clock) ==
    [entry        |-> entry,
     given        |-> given,
     daysCoverage |-> DaysCoverageOf(entry, given),
     save         |-> save,
     db           |-> db,
     clock        |-> clock,
     pc           |-> "validate",
     counted      |-> None,
     analysed     |-> FALSE,
     totalNeeded  |-> None,
     claude       |-> "idle",
     saved        |-> FALSE,
     error        |-> None]

InitGenerate ==
    /\ call = NoCall
    /\ orders = <<>>
    /\ order_items = <<>>
    /\ watch = None
    /\ runs = <<>>
    /\ wait = None
    /\ basket = None
    /\ saves = None
    /\ det = None
    /\ sync_metadata = None
    /\ \E entry \in EntryPoints, save \in BOOLEAN, db \in HistoryDatabases,
          ahead \in {5, 12} :
          \E given \in DaysGiven(entry) :
             gen = GenerationOf(entry, given, save, db,
                                (LastOrderDay(db) + ahead) * HoursPerDay)

Others == <<call, orders, order_items, watch, runs, sync_metadata, det, saves, basket, wait>>

ValidateDays ==
    /\ gen.pc = "validate"
    /\ gen' = IF DaysOutOfRange(gen.daysCoverage)
              THEN [gen EXCEPT !.pc = "ended", !.error = Some(DaysError)]
              ELSE [gen EXCEPT !.pc = "count"]
    /\ UNCHANGED Others

\* getOrderCount(db); below 3 the CLI and the MCP tool report and return, the
\* core function throws
CountOrders ==
    /\ gen.pc = "count"
    /\ LET orderCount == Len(gen.db.orders)
       IN  gen' = IF TooFewOrders(orderCount)
                  THEN [gen EXCEPT !.pc = "ended", !.counted = Some(orderCount),
                                   !.error = IF gen.entry = "core"
                                             THEN Some("Only orders found")
                                             ELSE None]
                  ELSE [gen EXCEPT !.pc = "analyse", !.counted = Some(orderCount)]
    /\ UNCHANGED Others

AnalysePatterns ==
    /\ gen.pc = "analyse"
    /\ LET totalNeeded == TotalNeeded(gen.db, gen.daysCoverage, gen.clock)
       IN  gen' = IF totalNeeded = 0
                  THEN [gen EXCEPT !.pc = "ended", !.analysed = TRUE,
                                   !.totalNeeded = Some(0),
                                   !.error = IF gen.entry = "core"
                                             THEN Some("No items predicted as needed")
                                             ELSE None]
                  ELSE [gen EXCEPT !.pc = "claude", !.analysed = TRUE,
                                   !.totalNeeded = Some(totalNeeded)]
    /\ UNCHANGED Others

\* await generateShoppingList(patternSummary, { daysCoverage })
CallClaude ==
    /\ gen.pc = "claude"
    /\ gen.claude = "idle"
    /\ gen' = [gen EXCEPT !.claude = "called"]
    /\ UNCHANGED Others

ClaudeReturns ==
    /\ gen.pc = "claude"
    /\ gen.claude = "called"
    /\ gen' = [gen EXCEPT !.claude = "returned", !.pc = "save"]
    /\ UNCHANGED Others

ClaudeThrows ==
    /\ gen.pc = "claude"
    /\ gen.claude = "called"
    /\ gen' = [gen EXCEPT !.claude = "failed", !.pc = "ended",
                          !.error = Some("Failed to generate shopping list")]
    /\ UNCHANGED Others

\* if (save) saveShoppingList(db, daysCoverage, result.recommendations)
SaveList ==
    /\ gen.pc = "save"
    /\ gen' = [gen EXCEPT !.pc = "ended", !.saved = gen.save]
    /\ UNCHANGED Others

NextGenerate ==
    \/ ValidateDays
    \/ CountOrders
    \/ AnalysePatterns
    \/ CallClaude
    \/ ClaudeReturns
    \/ ClaudeThrows
    \/ SaveList

SpecGenerate == InitGenerate /\ [][NextGenerate]_vars

----------------------------------------------------------------------------
(* Detecting new orders: detectNewOrders, filterExistingOrders and          *)
(* updateSyncMetadata                                                       *)

MaxDetections == 2

OrderNumbers == {1, 2, 3}

\* The orders extracted from the order-history page: up to two entries, an
\* order number possibly twice.
ExtractedPages ==
    {<<>>}
    \cup {<<[order_number |-> a, order_date |-> 0]>> : a \in OrderNumbers}
    \cup {<<[order_number |-> a, order_date |-> 0], [order_number |-> b, order_date |-> 0]>> :
             a \in OrderNumbers, b \in OrderNumbers}

\* The table orders with the given order numbers saved in turn.
RECURSIVE OrdersSaved(_)
OrdersSaved(numbers) ==
    IF numbers = <<>> THEN <<>>
    ELSE insertOrder(OrdersSaved(SubSeq(numbers, 1, Len(numbers) - 1)),
                     [order_number |-> numbers[Len(numbers)], order_date |-> 0])

StoredNumbers(tbl) == {tbl[i].order_number : i \in 1..Len(tbl)}

\* every extracted order kept, stored or not
FilterKeepingAll(tbl, extracted) == extracted

filterExistingOrders(tbl, extracted) ==
    IF Len(extracted) = 0 THEN <<>>
    ELSE LET orderNumbers == {extracted[i].order_number : i \in 1..Len(extracted)}
             existingSet == {n \in StoredNumbers(tbl) : n \in orderNumbers}
         IN  SelectSeq(extracted, LAMBDA o : o.order_number \notin existingSet)

\* the count read before the extraction written at the end
CountAtSyncStale(currentOrderCount, tbl) == currentOrderCount

\* const actualOrderCount = getOrderCount(db), inside the transaction
CountAtSync(currentOrderCount, tbl) == Len(tbl)

\* the new orders saved when autoImport is set
AutoImportSaving(tbl, newOrders, autoImport) ==
    IF autoImport THEN OrdersSaved([i \in 1..Len(tbl) |-> tbl[i].order_number]
                                   \o [i \in 1..Len(newOrders) |-> newOrders[i].order_number])
    ELSE tbl

\* if (autoImport && newOrders.length > 0): a notice is printed, no row written
AutoImport(tbl, newOrders, autoImport) == tbl

\* INSERT OR IGNORE INTO sync_metadata .. ('waitrose_orders', NULL, 0, 0, 'success')
InitialSyncMetadata == [order_count_at_sync |-> 0, status |-> "success", updates |-> 0]

\* UPDATE sync_metadata SET .. order_count_at_sync = ?, status = ?; updates
\* counts the writes in place of last_sync_time
updateSyncMetadata(row, orderCount, status) ==
    [order_count_at_sync |-> orderCount, status |-> status, updates |-> row.updates + 1]

DetectionOf(autoImport, page, calls, history) ==
    [pc                |-> "idle",
     autoImport        |-> autoImport,
     page              |-> page,
     currentOrderCount |-> None,
     extracted         |-> None,
     result            |-> None,
     error             |-> None,
     thrown            |-> None,
     calls             |-> calls,
     history           |-> history]

InitDetect ==
    /\ call = NoCall
    /\ order_items = <<>>
    /\ watch = None
    /\ runs = <<>>
    /\ wait = None
    /\ basket = None
    /\ saves = None
    /\ gen = None
    /\ sync_metadata = InitialSyncMetadata
    /\ \E stored \in {<<>>, <<1>>, <<2>>, <<1, 2>>, <<2, 1>>, <<3, 1>>} :
          orders = OrdersSaved(stored)
    /\ \E autoImport \in BOOLEAN, page \in ExtractedPages :
          det = DetectionOf(autoImport, page, 0, <<>>)

DetectOthers == <<call, watch, runs, gen, saves, basket, wait>>

\* getLastSyncTime(db), getOrderCount(db); at most two calls, one after the
\* other, on the same page content
StartDetection ==
    /\ det.pc \in {"idle", "returned", "thrown"}
    /\ det.calls < MaxDetections
    /\ det' = [DetectionOf(det.autoImport, det.page, det.calls + 1, det.history)
                  EXCEPT !.pc = "extracting", !.currentOrderCount = Some(Len(orders))]
    /\ UNCHANGED <<orders, order_items, sync_metadata, saves, basket, wait>>
    /\ UNCHANGED DetectOthers

\* another writer (the scraper) saves an order while the extraction is awaited
OtherWriterSaves ==
    /\ det.pc = "extracting"
    /\ \E number \in OrderNumbers \ StoredNumbers(orders) :
          orders' = insertOrder(orders, [order_number |-> number, order_date |-> 0])
    /\ UNCHANGED <<order_items, sync_metadata, det, saves, basket, wait>>
    /\ UNCHANGED DetectOthers

\* await extractOrderMetadata(chromeTools, maxOrders, onProgress)
ExtractionReturns ==
    /\ det.pc = "extracting"
    /\ det' = [det EXCEPT !.pc = "filter", !.extracted = Some(det.page)]
    /\ UNCHANGED <<orders, order_items, sync_metadata, saves, basket, wait>>
    /\ UNCHANGED DetectOthers

ExtractionThrows ==
    /\ det.pc = "extracting"
    /\ det' = [det EXCEPT !.pc = "catch", !.error = Some("extraction failed")]
    /\ UNCHANGED <<orders, order_items, sync_metadata, saves, basket, wait>>
    /\ UNCHANGED DetectOthers

FilterAndReport ==
    /\ det.pc = "filter"
    /\ LET extractedOrders == det.extracted[1]
           newOrders == filterExistingOrders(orders, extractedOrders)
       IN  /\ det' = [det EXCEPT
                        !.pc = "update",
                        !.result = Some(
                           [totalExtracted  |-> Len(extractedOrders),
                            newOrders       |-> Len(newOrders),
                            newOrderNumbers |-> [i \in 1..Len(newOrders) |->
                                                    newOrders[i].order_number],
                            duplicates      |-> Len(extractedOrders) - Len(newOrders),
                            imported        |-> 0,
                            importSkipped   |-> ~det.autoImport,
                            stored          |-> StoredNumbers(orders)])]
           /\ orders' = AutoImport(orders, newOrders, det.autoImport)
    /\ UNCHANGED <<order_items, sync_metadata, saves, basket, wait>>
    /\ UNCHANGED DetectOthers

\* the bulk query of filterExistingOrders failing
FilterThrows ==
    /\ det.pc = "filter"
    /\ det' = [det EXCEPT !.pc = "catch", !.error = Some("filtering failed")]
    /\ UNCHANGED <<orders, order_items, sync_metadata, saves, basket, wait>>
    /\ UNCHANGED DetectOthers

\* db.transaction(() => { getOrderCount; updateSyncMetadata(.., 'success') })
UpdateMetadata ==
    /\ det.pc = "update"
    /\ sync_metadata' = updateSyncMetadata(sync_metadata,
                           CountAtSync(det.currentOrderCount[1], orders), "success")
    /\ det' = [det EXCEPT !.pc = "returned", !.history = Append(@, det.result[1])]
    /\ UNCHANGED <<orders, order_items, saves, basket, wait>>
    /\ UNCHANGED DetectOthers

\* catch: the same transaction with 'failed', then throw error
UpdateFailure ==
    /\ det.pc = "catch"
    /\ sync_metadata' = updateSyncMetadata(sync_metadata,
                           CountAtSync(det.currentOrderCount[1], orders), "failed")
    /\ det' = [det EXCEPT !.pc = "thrown", !.thrown = det.error]
    /\ UNCHANGED <<orders, order_items, saves, basket, wait>>
    /\ UNCHANGED DetectOthers

NextDetect ==
    \/ StartDetection
    \/ OtherWriterSaves
    \/ ExtractionReturns
    \/ ExtractionThrows
    \/ FilterAndReport
    \/ FilterThrows
    \/ UpdateMetadata
    \/ UpdateFailure

SpecDetect == InitDetect /\ [][NextDetect]_vars

----------------------------------------------------------------------------
(* Saving scraped orders: saveScrapedOrders and saveOrdersToDatabase        *)

MaxSaves == 2

\* Scraped orders: an order number, a date and one or two line items, or no
\* line item at all.
ScrapedOrders ==
    {[order_number |-> number, order_date |-> 0, items |-> items] :
        number \in 1..MaxDbOrders,
        items \in {<<>>,
                   <<[product_name |-> "Milk", quantity |-> 2]>>,
                   <<[product_name |-> "Milk", quantity |-> 2],
                     [product_name |-> "Bread", quantity |-> 1]>>}}

ScrapedBatches ==
    {<<o>> : o \in ScrapedOrders} \cup {<<o1, o2>> : o1 \in ScrapedOrders, o2 \in ScrapedOrders}

validateOrderData(orderData) == Len(orderData.items) # 0

\* SELECT id FROM orders WHERE order_number = ?
OrderIdOf(tbl, number) == (CHOOSE i \in 1..Len(tbl) : tbl[i].order_number = number)

\* insertOrder, then insertOrderItems with the id it returned
SaveOrder(tables, order) ==
    LET tbl == insertOrder(tables.orders, order)
    IN  [orders      |-> tbl,
         order_items |-> insertOrderItems(tables.order_items,
                                          tbl[OrderIdOf(tbl, order.order_number)].id,
                                          order.items)]

RECURSIVE saveScrapedOrders(_, _)
saveScrapedOrders(tables, batch) ==
    IF batch = <<>> THEN tables
    ELSE saveScrapedOrders(IF validateOrderData(Head(batch))
                           THEN SaveOrder(tables, Head(batch))
                           ELSE tables,
                           Tail(batch))

RECURSIVE saveOrdersToDatabase(_, _)
saveOrdersToDatabase(tables, batch) ==
    IF batch = <<>> THEN tables
    ELSE saveOrdersToDatabase(SaveOrder(tables, Head(batch)), Tail(batch))

InitSave ==
    /\ call = NoCall
    /\ orders = <<>>
    /\ order_items = <<>>
    /\ watch = None
    /\ runs = <<>>
    /\ wait = None
    /\ basket = None
    /\ gen = None
    /\ sync_metadata = None
    /\ det = None
    /\ saves = <<>>
    /\ basket = None
    /\ wait = None

SaveOthers == <<call, watch, runs, gen, sync_metadata, det, basket, wait>>

Tables == [orders |-> orders, order_items |-> order_items]

SaveScrapedOrders ==
    /\ Len(saves) < MaxSaves
    /\ \E batch \in ScrapedBatches :
          LET after == saveScrapedOrders(Tables, batch)
          IN  /\ orders' = after.orders
              /\ order_items' = after.order_items
              /\ saves' = Append(saves, [fn |-> "saveScrapedOrders", batch |-> batch,
                                         before |-> Tables, after |-> after])
    /\ UNCHANGED SaveOthers

SaveOrdersToDatabase ==
    /\ Len(saves) < MaxSaves
    /\ \E batch \in ScrapedBatches :
          LET after == saveOrdersToDatabase(Tables, batch)
          IN  /\ orders' = after.orders
              /\ order_items' = after.order_items
              /\ saves' = Append(saves, [fn |-> "saveOrdersToDatabase", batch |-> batch,
                                         before |-> Tables, after |-> after])
    /\ UNCHANGED SaveOthers

NextSave ==
    \/ SaveScrapedOrders
    \/ SaveOrdersToDatabase

SpecSave == InitSave /\ [][NextSave]_vars

----------------------------------------------------------------------------
(* Basket automation: addItemToBasket, addItemWithRetry and populateBasket  *)

MaxItems == 2

DefaultMaxRetries == 2

\* How one addItemToBasket call ends: resolved with status 'added',
\* 'not_found' or 'failed', or rejected; error tells the attempts apart.
AttemptOutcomes(attempt) ==
    {[kind |-> "added", error |-> None],
     [kind |-> "not_found", error |-> None],
     [kind |-> "failed", error |-> Some(<<"Click timed out", attempt>>)],
     [kind |-> "rejected", error |-> Some(<<"Cannot read properties of undefined", attempt>>)]}

\* One outcome for each attempt that could be made.
RECURSIVE OutcomeLists(_)
OutcomeLists(n) ==
    IF n = 0 THEN {<<>>}
    ELSE {Append(s, o) : s \in OutcomeLists(n - 1), o \in AttemptOutcomes(n - 1)}

ResultOf(item, status, error) ==
    [item |-> item.item, quantity |-> item.quantity, status |-> status, error |-> error]

\* for (let attempt = 0; attempt < maxRetries; attempt++) { .. } and the
\* return after the loop
RECURSIVE RetryLoop(_, _, _, _)
RetryLoop(item, outcomes, maxRetries, attempt) ==
    IF attempt >= maxRetries
    THEN [result |-> ResultOf(item, "failed", Some(<<"Max retries exceeded">>)),
          calls |-> attempt, fallback |-> TRUE]
    ELSE LET o == outcomes[attempt + 1]
         IN  IF o.kind \in {"added", "not_found"}
             THEN [result |-> ResultOf(item, o.kind, o.error),
                   calls |-> attempt + 1, fallback |-> FALSE]
             ELSE IF o.kind = "rejected" /\ attempt = maxRetries - 1
             THEN [result |-> ResultOf(item, "failed", o.error),
                   calls |-> attempt + 1, fallback |-> FALSE]
             ELSE RetryLoop(item, outcomes, maxRetries, attempt + 1)

addItemWithRetry(item, outcomes, maxRetries) ==
    LET run == RetryLoop(item, outcomes, maxRetries, 0)
    IN  [item       |-> item,
         outcomes   |-> outcomes,
         maxRetries |-> maxRetries,
         result     |-> run.result,
         calls      |-> run.calls,
         fallback   |-> run.fallback]

\* a result that is neither added nor failed dropped
PlaceResultFailedOnly(results, result) ==
    IF result.status = "added"
    THEN [results EXCEPT !.added = Append(@, result)]
    ELSE IF result.status = "failed"
    THEN [results EXCEPT !.failed = Append(@, result)]
    ELSE results

\* if (result.status === 'added') results.added.push(result) else results.failed.push(result)
PlaceResult(results, result) ==
    IF result.status = "added"
    THEN [results EXCEPT !.added = Append(@, result)]
    ELSE [results EXCEPT !.failed = Append(@, result)]

BasketItems == {[item |-> name, quantity |-> q] : name \in {"Milk", "Bread"}, q \in {1, 2}}

RECURSIVE BasketLists(_)
BasketLists(n) ==
    IF n = 0 THEN {<<>>}
    ELSE BasketLists(n - 1) \cup {Append(s, i) : s \in BasketLists(n - 1), i \in BasketItems}

BasketOf(items) ==
    [pc      |-> "start",
     items   |-> items,
     i       |-> 0,
     results |-> [added |-> <<>>, failed |-> <<>>],
     events  |-> <<>>,
     retry   |-> None,
     error   |-> None]

InitBasket ==
    /\ call = NoCall
    /\ orders = <<>>
    /\ order_items = <<>>
    /\ watch = None
    /\ runs = <<>>
    /\ wait = None
    /\ gen = None
    /\ sync_metadata = None
    /\ det = None
    /\ saves = None
    /\ wait = None
    /\ \E items \in BasketLists(MaxItems) : basket = BasketOf(items)

BasketOthers == <<call, orders, order_items, watch, runs, gen, sync_metadata, det, saves, wait>>

\* tabs_context_mcp, ensureAuthenticated returning true
Authenticated ==
    /\ basket.pc = "start"
    /\ basket' = [basket EXCEPT !.pc = "items", !.events = Append(@, "authenticated")]
    /\ UNCHANGED BasketOthers

\* 'Login verification failed. Please try again.'
AuthenticationFails ==
    /\ basket.pc = "start"
    /\ basket' = [basket EXCEPT !.pc = "thrown", !.error = Some(<<"Login verification failed">>)]
    /\ UNCHANGED BasketOthers

\* one round of the loop over items
ProcessItem ==
    /\ basket.pc = "items"
    /\ basket.i < Len(basket.items)
    /\ \E outcomes \in OutcomeLists(DefaultMaxRetries) :
          LET retry == addItemWithRetry(basket.items[basket.i + 1], outcomes, DefaultMaxRetries)
          IN  basket' = [basket EXCEPT
                            !.i = @ + 1,
                            !.retry = Some(retry),
                            !.results = PlaceResult(@, retry.result),
                            !.events = Append(@, basket.i + 1)]
    /\ UNCHANGED BasketOthers

\* chromeTools.navigate to the trolley page; return results
NavigateToBasket ==
    /\ basket.pc = "items"
    /\ basket.i = Len(basket.items)
    /\ basket' = [basket EXCEPT !.pc = "returned", !.events = Append(@, "navigate")]
    /\ UNCHANGED BasketOthers

NavigationFails ==
    /\ basket.pc = "items"
    /\ basket.i = Len(basket.items)
    /\ basket' = [basket EXCEPT !.pc = "thrown", !.events = Append(@, "navigate"),
                                !.error = Some(<<"Navigation failed">>)]
    /\ UNCHANGED BasketOthers

\* addItemWithRetry called with maxRetries given
CallAddItemWithRetry ==
    /\ basket.pc = "start"
    /\ basket.retry = None
    /\ \E item \in BasketItems, maxRetries \in {1, DefaultMaxRetries + 1} :
          \E outcomes \in OutcomeLists(maxRetries) :
             basket' = [basket EXCEPT !.retry = Some(addItemWithRetry(item, outcomes, maxRetries))]
    /\ UNCHANGED BasketOthers

NextBasket ==
    \/ Authenticated
    \/ AuthenticationFails
    \/ ProcessItem
    \/ NavigateToBasket
    \/ NavigationFails
    \/ CallAddItemWithRetry

SpecBasket == InitBasket /\ [][NextBasket]_vars

----------------------------------------------------------------------------
(* Waiting for the order-history page: waitForOrderHistoryLoad              *)

maxWait == 5000

PollInterval == 200

\* What chromeTools.read_page can show: nothing yet, a spinner, a number of
\* nine digits, an order number, a sign-in prompt in either case.
PageTexts ==
    {<<>>,
     <<"L", "o", "a", "d", "i", "n", "g">>,
     <<"#", "1", "2", "3", "4", "5", "6", "7", "8", "9">>,
     <<"O", "r", "d", "e", "r", " ", "#", "1", "2", "3", "4", "5", "6", "7", "8", "9", "0">>,
     <<"S", "i", "g", "n", " ", "i", "n">>,
     <<"S", "I", "G", "N", " ", "I", "N">>}

\* /#\d{10}/.test(pageText)
HasOrderNumber(pageText) ==
    \E i \in 1..Len(pageText) :
       /\ pageText[i] = "#"
       /\ i + 10 <= Len(pageText)
       /\ \A k \in 1..10 : IsDigit(pageText[i + k])

LowerCase(c) ==
    CASE c = "S" -> "s" [] c = "I" -> "i" [] c = "G" -> "g" [] c = "N" -> "n"
      [] c = "L" -> "l" [] c = "O" -> "o" [] OTHER -> c

toLowerCase(text) == [i \in 1..Len(text) |-> LowerCase(text[i])]

includes(text, part) ==
    \E i \in 0..(Len(text) - Len(part)) : SubSeq(text, i + 1, i + Len(part)) = part

PageLoaded(pageText) ==
    HasOrderNumber(pageText) \/ includes(toLowerCase(pageText), <<"s", "i", "g", "n", " ", "i", "n">>)

WaitOf ==
    [pc |-> "polling", elapsed |-> 0, pageText |-> <<>>, polls |-> 0, result |-> None]

InitWait ==
    /\ call = NoCall
    /\ orders = <<>>
    /\ order_items = <<>>
    /\ watch = None
    /\ runs = <<>>
    /\ gen = None
    /\ sync_metadata = None
    /\ det = None
    /\ saves = None
    /\ basket = None
    /\ wait = WaitOf

WaitOthers == <<call, orders, order_items, watch, runs, gen, sync_metadata, det, saves, basket>>

\* one round of the while loop: read_page (taking readTime ms), the test,
\* and sleep(200) when it fails
PollPage ==
    /\ wait.pc = "polling"
    /\ wait.elapsed < maxWait
    /\ \E pageText \in PageTexts, readTime \in {0, 100} :
          wait' = IF PageLoaded(pageText)
                  THEN [wait EXCEPT !.pc = "returned", !.pageText = pageText,
                                    !.polls = @ + 1, !.elapsed = @ + readTime,
                                    !.result = Some(TRUE)]
                  ELSE [wait EXCEPT !.pageText = pageText, !.polls = @ + 1,
                                    !.elapsed = @ + readTime + PollInterval]
    /\ UNCHANGED WaitOthers

\* the loop left with the time used up: console.warn and return false
WaitTimesOut ==
    /\ wait.pc = "polling"
    /\ wait.elapsed >= maxWait
    /\ wait' = [wait EXCEPT !.pc = "returned", !.result = Some(FALSE)]
    /\ UNCHANGED WaitOthers

\* extractOrderMetadata after the await: the login check and the parsing,
\* the value the wait returned not looked at
ExtractionProceeds ==
    /\ wait.pc = "returned"
    /\ wait' = [wait EXCEPT !.pc = "extracting"]
    /\ UNCHANGED WaitOthers

NextWait ==
    \/ PollPage
    \/ WaitTimesOut
    \/ ExtractionProceeds

SpecWait == InitWait /\ [][NextWait]_vars

----------------------------------------------------------------------------
(* analyzeShoppingPatterns *)

\* options: targetDays and minOrders, each given or left out
AnalysisOptions ==
    {[targetDays |-> t, minOrders |-> m] :
        t \in {None, Some(7), Some(MaxDays)}, m \in {None, Some(1), Some(2)}}

\* const { targetDays = 7, minOrders = 2 } = options
OptionOr(given, default) == IF given = None THEN default ELSE given[1]

\* The callback handed to import('./database.js').then: the summary it
\* returns resolves the promise of then, which nothing holds.
ImportCallback(db, options, clock) ==
    PatternAnalysis(db, OptionOr(options.minOrders, 2), None, clock,
                    OptionOr(options.targetDays, 7)).summary

\* The function body holds no return statement of its own: the call
\* evaluates to undefined.
analyzeShoppingPatterns(db, options) == Undefined

CallAnalyzeShoppingPatterns ==
    /\ Idle
    /\ \E db \in HistoryDatabases, options \in AnalysisOptions :
          Returned("analyzeShoppingPatterns", <<db, options>>,
                   analyzeShoppingPatterns(db, options))

\* the dynamic import resolved: the callback runs after the call returned
ImportResolves ==
    /\ call.fn = "analyzeShoppingPatterns"
    /\ \E ahead \in {0, 5, 12} :
          LET db == call.args[1]
              now == (LastOrderDay(db) + ahead) * HoursPerDay
          IN  Completed("import.then", call.args, "return",
                        ImportCallback(db, call.args[2], now), None, <<>>, Some(now))

NextAnalyze ==
    \/ CallAnalyzeShoppingPatterns
    \/ ImportResolves

SpecAnalyze == Init /\ [][NextAnalyze]_vars

----------------------------------------------------------------------------
(* Classifier *)

Is(fn) == call.fn = fn

\* C1: classifyItems labels every record by one total rule: a purchase_count
\* of 1 gives 'one-off' whatever the frequency; otherwise a frequency of at
\* least 0.40 gives 'regular'; otherwise 'infrequent'.  Every record gets
\* exactly one of the three labels.
C1_ClassificationRule ==
    Is("classifyItems") =>
        LET input == call.args[1]
        IN  /\ Len(call.result) = Len(input)
            /\ \A i \in 1..Len(input) :
                  LET r == input[i]
                      label == call.result[i].classification
                      atLeast40 == 100 * r.frequency.n >= 40 * r.frequency.d
                  IN  /\ label \in Classifications
                      /\ (r.purchase_count = 1) => label = "one-off"
                      /\ (r.purchase_count # 1 /\ atLeast40) => label = "regular"
                      /\ (r.purchase_count # 1 /\ ~atLeast40) => label = "infrequent"

\* a one-off with frequency 1/2 next to a record at exactly 0.40 (regular)
C1_Witness ==
    /\ Is("classifyItems")
    /\ Len(call.args[1]) = 2
    /\ call.args[1][1].purchase_count = 1
    /\ call.args[1][1].frequency = Rat(1, 2)
    /\ call.result[1].classification = "one-off"
    /\ call.args[1][2].frequency = Rat(2, 5)
    /\ call.result[2].classification = "regular"

\* C7: a malformed frequency record (purchase_count above total_orders, or a
\* negative avg_quantity) is rejected by classifyItems with a validation
\* error; no classified item is returned for it.
C7_MalformedRejected ==
    (Is("classifyItems") /\ \E i \in 1..Len(call.args[1]) : Malformed(call.args[1][i]))
        => call.outcome = "throw"

----------------------------------------------------------------------------
(* NeedPredictor *)

\* avg_interval - days_since_last_purchase of a predictItemNeed call whose
\* avg_interval is present
DaysTillDue == call.args[2].avg_interval[1] - call.args[1].days_since_last_purchase

\* C2: for an item classified 'regular' whose avg_interval is present (any
\* computed value, 0 included), predictItemNeed returns true if and only if
\* -2 <= avg_interval - days_since_last_purchase <= targetDays + 3.
C2_RegularNeededIff ==
    (/\ Is("predictItemNeed")
     /\ call.args[1].classification = "regular"
     /\ call.args[2].avg_interval # None)
        => (call.result <=> (-2 <= DaysTillDue /\ DaysTillDue <= call.args[3] + 3))

\* C3: for an item classified 'infrequent' whose avg_interval is present (any
\* computed value, 0 included), predictItemNeed returns true if and only if
\* avg_interval - days_since_last_purchase <= targetDays + 3, however overdue.
C3_InfrequentNeededIff ==
    (/\ Is("predictItemNeed")
     /\ call.args[1].classification = "infrequent"
     /\ call.args[2].avg_interval # None)
        => (call.result <=> DaysTillDue <= call.args[3] + 3)

----------------------------------------------------------------------------
(* QuantityRecommender *)

\* C4: calculateRecommendedQuantity returns an integer >= 1 for every
\* avg_quantity >= 0, every IntervalStats and every targetDays in 5..8; it
\* never recommends zero.
C4_QuantityAtLeastOne ==
    (/\ Is("calculateRecommendedQuantity")
     /\ call.args[1].n >= 0
     /\ call.args[3] \in MinDays..MaxDays)
        => call.result >= 1

\* r is x rounded to the nearest integer, halves upwards
IsRounded(r, x) == 2 * r * x.d - x.d <= 2 * x.n /\ 2 * x.n < 2 * r * x.d + x.d

\* C8: calculateRecommendedQuantity follows the four-branch rule: with
\* avg_interval absent or 0 it is round(avg_quantity) whatever targetDays is;
\* otherwise with scaled = avg_quantity * targetDays / avg_interval: 1 when
\* scaled < 1, round(scaled) when 1 <= scaled < 3, and round(scaled / 2) * 2,
\* an even integer, when scaled >= 3 (avg_quantity 2, avg_interval 7,
\* targetDays 21 give 6).
C8_FourBranchRule ==
    Is("calculateRecommendedQuantity") =>
        LET q == call.args[1]
            intervals == call.args[2]
            targetDays == call.args[3]
            r == call.result
            noInterval == \/ intervals = None
                          \/ intervals[1].avg_interval = None
                          \/ intervals[1].avg_interval[1] = 0
        IN  IF noInterval THEN IsRounded(r, q)
            ELSE LET avg == intervals[1].avg_interval[1]
                     sn == q.n * targetDays
                     sd == q.d * avg
                 IN  /\ sn < sd => r = 1
                     /\ (sd <= sn /\ sn < 3 * sd) => IsRounded(r, Rat(sn, sd))
                     /\ 3 * sd <= sn =>
                           /\ r % 2 = 0
                           /\ IsRounded(r \div 2, Rat(sn, 2 * sd))
                     /\ (q = Rat(2 * QDen, QDen) /\ avg = 7 /\ targetDays = 21) => r = 6

\* scaled = 3.5 * 8 / 3 = 9.33 is rounded to the even 10, not to 9
C8_Witness ==
    /\ Is("calculateRecommendedQuantity")
    /\ call.args[1].n * 2 = 7 * call.args[1].d
    /\ call.args[2] # None
    /\ call.args[2][1].avg_interval = Some(3)
    /\ call.args[3] = 8
    /\ call.result = 10

----------------------------------------------------------------------------
(* ConfidenceScorer *)

\* C5: calculateConfidence returns a value in [0, 1] for every item and
\* IntervalStats, extreme inputs (frequency 1.0, purchase_count 100, a
\* coefficient of variation of 5, where 1 - CV * 0.3 is negative) and an
\* absent avg_interval included.
C5_ConfidenceInUnitInterval ==
    Is("calculateConfidence") =>
        /\ call.result.base.d > 0
        /\ call.result.avg > 0
        /\ call.result.variance.d > 0
        /\ ~ConfLT0(call.result)
        /\ ~ConfGT1(call.result)

\* frequency 1.0, purchase_count 100, std_deviation 5 over avg_interval 1:
\* 1.2 * (1 - 1.5) is negative and is clamped to 0
C5_Witness ==
    /\ Is("calculateConfidence")
    /\ call.args[1].purchase_count = ManyPurchases
    /\ call.args[1].frequency = Rat(FreqDen, FreqDen)
    /\ call.args[2] # None
    /\ call.args[2][1].avg_interval = Some(1)
    /\ call.args[2][1].std_deviation = Some(Rat(25, 1))
    /\ call.result = Plain(Rat(0, 1))

\* the unclamped value frequency + min(purchase_count / 10, 1) * 0.2 of a
\* calculateConfidence call, in hundredths over the frequency's denominator
BoostedOfCall ==
    LET f == call.args[1].frequency
        c == call.args[1].purchase_count
    IN  Rat(100 * f.n + 2 * (IF c < BoostCap THEN c ELSE BoostCap) * f.d, 100 * f.d)

\* avg_interval is there and above 0 and std_deviation / avg_interval > 0.5
PenaltyDueOfCall ==
    /\ call.args[2] # None
    /\ call.args[2][1].avg_interval # None
    /\ call.args[2][1].avg_interval[1] > 0
    /\ call.args[2][1].std_deviation # None
    /\ 4 * call.args[2][1].std_deviation[1].n
          > call.args[2][1].avg_interval[1] * call.args[2][1].avg_interval[1]
              * call.args[2][1].std_deviation[1].d

\* C11: calculateConfidence computes v = frequency + min(purchase_count / 10,
\* 1) * 0.2, not clamped; multiplies v by 1 - CV * 0.3 when avg_interval is
\* there and above 0 and CV = std_deviation / avg_interval is above 0.5, and by
\* nothing otherwise; and returns that value clamped to [0, 1]: the penalty is
\* taken off the unclamped boosted value.
C11_BoostPenaltyClampOrder ==
    Is("calculateConfidence") =>
        LET v == IF PenaltyDueOfCall
                 THEN Conf(BoostedOfCall, call.args[2][1].avg_interval[1],
                           call.args[2][1].std_deviation[1])
                 ELSE Plain(BoostedOfCall)
            r == call.result
        IN  IF ConfGT1(v) THEN r = Plain(Rat(1, 1))
            ELSE IF ConfLT0(v) THEN r = Plain(Rat(0, 1))
            ELSE /\ r.base.n * v.base.d = v.base.n * r.base.d
                 /\ r.avg = v.avg
                 /\ r.variance.n * v.variance.d = v.variance.n * r.variance.d

\* frequency 1.0 and purchase_count 10 boost to 1.2; std_deviation 2 over
\* avg_interval 2 takes 30% off: 0.84, where the clamped 1.0 would give 0.7
C11_Witness ==
    /\ Is("calculateConfidence")
    /\ call.args[1].purchase_count = BoostCap
    /\ call.args[1].frequency = Rat(FreqDen, FreqDen)
    /\ call.args[2] # None
    /\ call.args[2][1].avg_interval = Some(2)
    /\ call.args[2][1].std_deviation = Some(Rat(4, 1))
    /\ 10 * call.result.base.n = 12 * call.result.base.d
    /\ call.result.avg = 2
    /\ call.result.variance = Rat(4, 1)

----------------------------------------------------------------------------
(* IntervalEstimator *)

\* the order dates of the database of a calculatePurchaseIntervals call, every
\* order of which holds the product
DatesOfCall == [i \in 1..Len(call.args[1].orders) |-> call.args[1].orders[i].order_date]

\* C9: on an ascending list of n purchase dates calculatePurchaseIntervals
\* returns, for n < 2, an absent avg_interval and no intervals; for n >= 2,
\* n - 1 intervals, the i-th the whole days from date i to date i + 1 (never
\* negative), and avg_interval = round(mean(intervals)); dates D, D + 10,
\* D + 20 give intervals [10, 10] and avg_interval 10.
C9_IntervalsAndAverage ==
    Is("calculatePurchaseIntervals") =>
        LET dates == DatesOfCall
            n == Len(dates)
            r == call.result
        IN  IF n < 2 THEN r.avg_interval = None /\ r.intervals = <<>>
            ELSE /\ Len(r.intervals) = n - 1
                 /\ \A i \in 1..(n - 1) :
                       r.intervals[i] = dates[i + 1] - dates[i] /\ r.intervals[i] >= 0
                 /\ r.avg_interval # None
                 /\ IsRounded(r.avg_interval[1], Rat(dates[n] - dates[1], n - 1))
                 /\ (n = 3 /\ dates[2] = dates[1] + 10 /\ dates[3] = dates[1] + 20)
                       => (r.intervals = <<10, 10>> /\ r.avg_interval = Some(10))

\* dates 0, 5, 25: intervals [5, 20], mean 12.5, avg_interval 13
C9_Witness ==
    /\ Is("calculatePurchaseIntervals")
    /\ DatesOfCall = <<0, 5, 25>>
    /\ call.result.intervals = <<5, 20>>
    /\ call.result.avg_interval = Some(13)

SumOfSquares(s) == SumSeq([i \in 1..Len(s) |-> s[i] * s[i]])

\* C10: std_deviation is the population standard deviation of the intervals:
\* its square is (sum of x^2) / n - (sum of x / n)^2 over the n intervals; it
\* is 0 for a single interval and for equal intervals, and for the intervals
\* [5, 20] its square is 56.25.
C10_PopulationStdDeviation ==
    (Is("calculatePurchaseIntervals") /\ Len(DatesOfCall) >= 2) =>
        LET xs == [i \in 1..(Len(DatesOfCall) - 1) |-> DatesOfCall[i + 1] - DatesOfCall[i]]
            n == Len(xs)
            s == SumSeq(xs)
            sd == call.result.std_deviation
        IN  /\ sd # None
            /\ sd[1].d > 0
            /\ sd[1].n * n * n = sd[1].d * (n * SumOfSquares(xs) - s * s)
            /\ n = 1 => sd[1].n = 0
            /\ (\A i \in 1..n : xs[i] = xs[1]) => sd[1].n = 0
            /\ xs = <<5, 20>> => 4 * sd[1].n = 225 * sd[1].d

\* intervals [5, 20]: a variance of 56.25
C10_Witness ==
    /\ Is("calculatePurchaseIntervals")
    /\ call.result.intervals = <<5, 20>>
    /\ call.result.std_deviation # None
    /\ 4 * call.result.std_deviation[1].n = 225 * call.result.std_deviation[1].d

----------------------------------------------------------------------------
(* PatternSummaryBuilder *)

\* the input items of a generatePatternSummary call that have the given
\* classification and that predictItemNeed predicts as needed, in input order
NeededOfClass(c) ==
    SelectSeq(call.args[1],
              LAMBDA it : /\ it.classification = c
                          /\ predictItemNeed(it,
                                 calculatePurchaseIntervals(call.args[2], it.product_name),
                                 call.args[3]))

\* entries are the entries of exactly these items, in this order
EntriesOf(entries, items) ==
    /\ Len(entries) = Len(items)
    /\ \A i \in 1..Len(items) :
          /\ entries[i].name = items[i].product_name
          /\ entries[i].daysSinceLastPurchase = items[i].days_since_last_purchase
          /\ entries[i].isNeeded

\* C6: regularItems of the summary holds exactly the entries of the input
\* items classified 'regular' for which predictItemNeed is true, and
\* infrequentItems those classified 'infrequent' for which it is true, each in
\* input order; no 'one-off' item and no entry with isNeeded = false is in
\* either bucket.
C6_BucketsHoldNeededItems ==
    (Is("generatePatternSummary") /\ call.outcome = "return") =>
        /\ EntriesOf(call.result.regularItems, NeededOfClass("regular"))
        /\ EntriesOf(call.result.infrequentItems, NeededOfClass("infrequent"))

\* a regular item that is needed and reported, next to an infrequent item
\* that is not needed and left out
C6_Witness ==
    /\ Is("generatePatternSummary")
    /\ call.outcome = "return"
    /\ Len(call.args[1]) = 2
    /\ call.args[1][1].classification = "infrequent"
    /\ call.args[1][2].classification = "regular"
    /\ Len(call.result.regularItems) = 1
    /\ call.result.infrequentItems = <<>>
    /\ calculatePurchaseIntervals(call.args[2], call.args[1][1].product_name).avg_interval
          = Some(14)

\* C12: totalOrders of the summary is the maximum purchase_count over all
\* input items, the one-off items included and wherever in the list the
\* maximum stands, and 0 for an empty input list.
C12_TotalOrdersIsMaxCount ==
    (Is("generatePatternSummary") /\ call.outcome = "return") =>
        LET items == call.args[1]
            t == call.result.totalOrders
        IN  IF items = <<>> THEN t = 0
            ELSE /\ \A i \in 1..Len(items) : items[i].purchase_count <= t
                 /\ \E i \in 1..Len(items) : items[i].purchase_count = t

\* a one-off bought once ahead of an item bought twice: totalOrders is 2
C12_Witness ==
    /\ Is("generatePatternSummary")
    /\ call.outcome = "return"
    /\ Len(call.args[1]) = 2
    /\ call.args[1][1].classification = "one-off"
    /\ call.args[1][1].purchase_count = 1
    /\ call.args[1][2].purchase_count = 2
    /\ call.result.totalOrders = 2

\* C13: predictItemNeed returns false for every 'one-off' item, whatever the
\* IntervalStats, days_since_last_purchase and targetDays; and
\* generatePatternSummary reads the purchase history of no 'one-off' item.
C13_OneOffNeverNeededNorRead ==
    /\ (Is("predictItemNeed") /\ call.args[1].classification = "one-off")
          => call.result = FALSE
    /\ Is("generatePatternSummary") =>
          \A i \in 1..Len(call.args[1]) :
             call.args[1][i].classification = "one-off" =>
                \A k \in 1..Len(call.reads) : call.reads[k] # call.args[1][i].product_name

\* a one-off whose product is in every order of the history, ahead of an item
\* whose history is read
C13_Witness ==
    /\ Is("generatePatternSummary")
    /\ Len(call.args[1]) = 2
    /\ call.args[1][1].classification = "one-off"
    /\ Len(PurchaseDates(call.args[2], call.args[1][1].product_name)) = MaxPurchases
    /\ call.reads = <<call.args[1][2].product_name>>
    /\ call.outcome = "return"

\* the items of a generatePatternSummary call whose purchase-history read fails
FailingItems ==
    SelectSeq(call.args[1],
              LAMBDA it : it.classification # "one-off"
                          /\ it.product_name \in call.args[2].broken)

\* C16: when the purchase-history read fails for a non-one-off item,
\* generatePatternSummary fails with that same failure: nothing of a summary
\* is returned, and the failed read is made once and is the last one; with no
\* failing read the call returns.
C16_ReadFailurePropagates ==
    Is("generatePatternSummary") =>
        IF FailingItems = <<>> THEN call.outcome = "return" /\ call.error = None
        ELSE /\ call.outcome = "throw"
             /\ call.error = Some(ReadError(FailingItems[1].product_name))
             /\ call.result = None
             /\ call.reads # <<>>
             /\ \A k \in 1..Len(call.reads) :
                   call.reads[k] = FailingItems[1].product_name <=> k = Len(call.reads)

\* the read of the second item fails after the first item was read and pushed
C16_Witness ==
    /\ Is("generatePatternSummary")
    /\ Len(call.args[1]) = 2
    /\ call.args[2].broken = {call.args[1][2].product_name}
    /\ call.reads = <<call.args[1][1].product_name, call.args[1][2].product_name>>
    /\ call.outcome = "throw"
    /\ call.result = None

\* C14: classifyItems maps the list one to one and in order, and passes every
\* field of the input record through unchanged: the i-th element carries the
\* i-th record's product_name, purchase_count, total_orders, frequency,
\* avg_quantity and last_purchase_date with equal values, plus classification.
C14_EveryFieldPassedThrough ==
    Is("classifyItems") =>
        /\ Len(call.result) = Len(call.args[1])
        /\ \A i \in 1..Len(call.args[1]) :
              /\ "classification" \in DOMAIN call.result[i]
              /\ \A f \in {"product_name", "purchase_count", "total_orders",
                            "frequency", "avg_quantity", "last_purchase_date"} :
                    /\ f \in DOMAIN call.result[i]
                    /\ call.result[i][f] = call.args[1][i][f]

\* the current date a calculateDaysSinceLastPurchase call worked with
DateOfCall == IF call.args[2] = None THEN call.clock[1] ELSE call.args[2][1]

\* C17: calculateDaysSinceLastPurchase sets, for every item and every
\* reference current date, days_since_last_purchase to the whole number of
\* days between the current date and last_purchase_date, an integer >= 0, and
\* leaves every other field of the item unchanged.
C17_WholeDaysNeverNegative ==
    Is("calculateDaysSinceLastPurchase") =>
        /\ Len(call.result) = Len(call.args[1])
        /\ \A i \in 1..Len(call.args[1]) :
              LET d == call.result[i].days_since_last_purchase
                  elapsed == DateOfCall - ParseDate(call.args[1][i].last_purchase_date)
              IN  /\ d * HoursPerDay <= elapsed
                  /\ elapsed < (d + 1) * HoursPerDay
                  /\ d >= 0
                  /\ \A f \in DOMAIN call.args[1][i] :
                        call.result[i][f] = call.args[1][i][f]

----------------------------------------------------------------------------
(* End to end *)

\* the current date a patternAnalysis run worked with
DateOfRun == IF call.args[3] = None THEN call.clock[1] ELSE call.args[3][1]

\* four orders, 7 days apart, Milk (quantity 2) in each; targetDays 7; the
\* current date on the fifth day after the last order
MilkScenario ==
    /\ Is("patternAnalysis")
    /\ Len(call.args[1].orders) = 4
    /\ \A i \in 1..4 :
          /\ call.args[1].orders[i].order_date = (i - 1) * 7
          /\ \E k \in 1..Len(call.args[1].order_items) :
                call.args[1].order_items[k]
                   = [order_id |-> call.args[1].orders[i].id,
                      product_name |-> "Milk", quantity |-> 2]
    /\ call.args[4] = 7
    /\ DateOfRun \div HoursPerDay = call.args[1].orders[4].order_date + 5

\* C20: on a history of exactly four orders 7 days apart, each holding Milk
\* with quantity 2, with targetDays 7 and the current date 5 days after the
\* last order, Milk is classified 'regular', stands in regularItems with
\* isNeeded true and a confidence above 0.4, and its recommended quantity is
\* between 1 and 3.
C20_MilkEndToEnd ==
    MilkScenario =>
        /\ \E i \in 1..Len(call.result.classified) :
              /\ call.result.classified[i].product_name = "Milk"
              /\ call.result.classified[i].classification = "regular"
        /\ \E i \in 1..Len(call.result.summary.regularItems) :
              LET entry == call.result.summary.regularItems[i]
              IN  /\ entry.name = "Milk"
                  /\ entry.isNeeded
                  /\ entry.confidence.variance.n = 0
                  /\ 10 * entry.confidence.base.n > 4 * entry.confidence.base.d
        /\ \E i \in 1..Len(call.result.predictions) :
              /\ call.result.predictions[i].item.product_name = "Milk"
              /\ call.result.predictions[i].recQty >= 1
              /\ call.result.predictions[i].recQty <= 3

\* the scenario with Steak in one order only: Milk alone is reported, with
\* days_since_last_purchase 5, confidence 1 and quantity 2
C20_Witness ==
    /\ MilkScenario
    /\ call.args[2] = 1
    /\ Len(call.result.classified) = 2
    /\ Len(call.result.summary.regularItems) = 1
    /\ call.result.summary.regularItems[1].name = "Milk"
    /\ call.result.summary.regularItems[1].daysSinceLastPurchase = 5
    /\ call.result.summary.regularItems[1].avgFrequencyDays = Some(7)
    /\ call.result.summary.regularItems[1].confidence = Plain(Rat(1, 1))
    /\ call.result.predictions[1].recQty = 2

----------------------------------------------------------------------------
(* Purchase history *)

\* the orders that hold the product: COUNT(DISTINCT oi.order_id)
OrdersHolding(productName) ==
    {order_items[i].order_id : i \in {k \in 1..Len(order_items) :
                                        order_items[k].product_name = productName}}

\* C15: after any sequence of insertOrder / insertOrderItems calls the
\* purchase-date list that interval estimation reads for a product is
\* ascending and has exactly one entry per distinct order holding the product
\* (its length is the product's purchase_count), also when an order holds the
\* product in more than one line item or its items were inserted twice.
C15_OneDatePerDistinctOrder ==
    \A p \in Products :
       LET dates == PurchaseDates(Database, p)
       IN  /\ \A i \in 1..(Len(dates) - 1) : dates[i] <= dates[i + 1]
           /\ Len(dates) = Cardinality(OrdersHolding(p))

----------------------------------------------------------------------------
(* Day after day *)

\* C18: as the current date advances day by day with no new purchase of an
\* 'infrequent' item (avg_interval and targetDays fixed), the item, once
\* predicted as needed, is predicted as needed on every later day.
C18_InfrequentStaysNeeded ==
    [][(watch.item.classification = "infrequent" /\ watch.needed) => watch'.needed]_vars

\* an infrequent item bought every 5 days, 9 days after its last purchase:
\* 4 days overdue and still predicted as needed
C18_Witness ==
    /\ watch # None
    /\ watch.item.classification = "infrequent"
    /\ watch.intervals.avg_interval = Some(5)
    /\ DaysSince(watch.item.last_purchase_date, watch.today) = 9
    /\ watch.needed

\* C19: the analysis pipeline is deterministic in its explicit inputs: two
\* runs with equal purchase history (and so equal frequency records), equal
\* targetDays and equal current date passed in return equal summaries, no run
\* influences another, and no run reads the system clock in place of a
\* current date passed in.
C19_DeterministicInExplicitInputs ==
    /\ \A i \in 1..Len(runs) : runs[i].clock = None
    /\ \A i \in 1..Len(runs) : \A j \in 1..Len(runs) :
          (/\ runs[i].db = runs[j].db
           /\ runs[i].minOrders = runs[j].minOrders
           /\ runs[i].targetDays = runs[j].targetDays
           /\ runs[i].currentDate = runs[j].currentDate)
             => runs[i].summary = runs[j].summary

----------------------------------------------------------------------------
(* Generation flows *)

\* the days value given is a number in 5..8 (the default stands for a value
\* left out)
GivenDaysInRange ==
    \/ gen.given = Undefined
    \/ /\ gen.given.t = "number"
       /\ gen.given.v # NaN
       /\ gen.given.v[1] >= 5
       /\ gen.given.v[1] <= 8
    \/ /\ gen.entry = "cli"
       /\ gen.given.t = "string"
       /\ gen.given.v \in {<<"5">>, <<"6">>, <<"7">>, <<"8">>}

\* C21: every entry point that generates a shopping list rejects with 'Days
\* must be between 5 and 8' every days value that is no number in 5..8, a
\* non-numeric --days value included; for a rejected value no pattern
\* analysis runs, Claude is not called and nothing is saved.
C21_DaysOutside5To8Rejected ==
    (gen.pc # "validate" /\ ~GivenDaysInRange) =>
        /\ gen.pc = "ended"
        /\ gen.error = Some("Days must be between 5 and 8")
        /\ gen.counted = None
        /\ ~gen.analysed
        /\ gen.claude = "idle"
        /\ ~gen.saved

\* C22: in every generation flow the steps are ordered and gated: Claude is
\* called only after the order count was found to be >= 3 and the pattern
\* analysis predicted at least one needed item; with fewer than 3 orders or
\* no needed item Claude is never called and no list is saved; a list is
\* saved only after Claude returned recommendations and only if saving was
\* asked for.
C22_ClaudeAndSaveGated ==
    /\ gen.claude # "idle" =>
          /\ gen.counted # None
          /\ gen.counted[1] >= 3
          /\ Len(gen.db.orders) >= 3
          /\ gen.analysed
          /\ gen.totalNeeded # None
          /\ gen.totalNeeded[1] >= 1
    /\ (Len(gen.db.orders) < 3 \/ gen.totalNeeded = Some(0)) =>
          (gen.claude = "idle" /\ ~gen.saved)
    /\ gen.saved => (gen.claude = "returned" /\ gen.save)
    /\ (gen.pc = "ended" /\ gen.claude = "returned") => (gen.saved <=> gen.save)

\* four orders, one needed item, Claude returned and the list was saved
C22_Witness ==
    /\ gen # None
    /\ gen.pc = "ended"
    /\ gen.counted = Some(4)
    /\ gen.totalNeeded = Some(1)
    /\ gen.claude = "returned"
    /\ gen.saved

----------------------------------------------------------------------------
(* Detection                                                                *)

C26_FilterKeepsUnstoredInOrder ==
    (det # None /\ det.pc = "update") =>
        LET r == det.result[1]
            numbers == [i \in 1..Len(det.extracted[1]) |-> det.extracted[1][i].order_number]
        IN  /\ r.newOrderNumbers = SelectSeq(numbers, LAMBDA n : n \notin StoredNumbers(orders))
            /\ numbers = <<>> => r.newOrderNumbers = <<>>
            /\ r.stored = StoredNumbers(orders)
            /\ r.newOrders = Len(r.newOrderNumbers)
            /\ r.newOrders + r.duplicates = r.totalExtracted
            /\ \A i \in 1..Len(r.newOrderNumbers) : r.newOrderNumbers[i] \notin StoredNumbers(orders)

C26_Witness ==
    /\ det # None
    /\ det.pc = "update"
    /\ det.result[1].newOrders = 1
    /\ det.result[1].duplicates = 1

----------------------------------------------------------------------------
(* Saving scraped orders                                                    *)

\* C25: a save of orders whose order numbers are all stored already leaves
\* orders and order_items as they were: one orders row per order number and
\* no further order_items row.
C25_SavingStoredOrderChangesNothing ==
    \A k \in 1..Len(saves) :
       (\A i \in 1..Len(saves[k].batch) :
           saves[k].batch[i].order_number \in StoredNumbers(saves[k].before.orders))
       => saves[k].after = saves[k].before

----------------------------------------------------------------------------
(* Basket automation                                                        *)

\* C27: when populateBasket has returned, every item was attempted, in
\* input order, each item's result is in added when its status is 'added'
\* and in failed otherwise and in no other place, added and failed together
\* count the items, and the navigation to the basket page came after the
\* last item.
C27_EveryItemAttemptedAndPlaced ==
    (basket # None /\ basket.pc = "returned") =>
        LET n == Len(basket.items)
            added == basket.results.added
            failed == basket.results.failed
        IN  /\ basket.events = <<"authenticated">> \o [i \in 1..n |-> i] \o <<"navigate">>
            /\ Len(added) + Len(failed) = n
            /\ \A k \in 1..Len(added) : added[k].status = "added"
            /\ \A k \in 1..Len(failed) : failed[k].status # "added"
            /\ \E place \in [1..n -> {"added", "failed"}] :
                  LET at(list) == SelectSeq([i \in 1..n |-> i], LAMBDA i : place[i] = list)
                  IN  /\ [k \in 1..Len(added) |-> [item |-> added[k].item, quantity |-> added[k].quantity]]
                           = [k \in 1..Len(at("added")) |-> basket.items[at("added")[k]]]
                      /\ [k \in 1..Len(failed) |-> [item |-> failed[k].item, quantity |-> failed[k].quantity]]
                           = [k \in 1..Len(at("failed")) |-> basket.items[at("failed")[k]]]

C27_Witness ==
    /\ basket # None
    /\ basket.pc = "returned"
    /\ Len(basket.items) = 2
    /\ Len(basket.results.added) = 1
    /\ Len(basket.results.failed) = 1
    /\ basket.results.failed[1].status = "not_found"
    /\ basket.results.failed[1].item = basket.items[1].item

\* C30: an addItemWithRetry call makes at most maxRetries addItemToBasket
\* calls, only one when the first ends 'added' or 'not_found', never
\* returns by the fallback after the loop, and a 'failed' result carries
\* the error of the last attempt made.
C30_RetryReturnsInsideLoop ==
    (basket # None /\ basket.retry # None) =>
        LET r == basket.retry[1]
        IN  /\ r.calls <= r.maxRetries
            /\ r.outcomes[1].kind \in {"added", "not_found"} =>
                  (r.calls = 1 /\ r.result.status = r.outcomes[1].kind)
            /\ ~r.fallback
            /\ r.result.status = "failed" => r.result.error = r.outcomes[r.calls].error

----------------------------------------------------------------------------
(* Waiting for the order-history page                                       *)

\* C28: waitForOrderHistoryLoad returns only with true, on a page showing
\* an order number or a sign-in prompt; when the time is used up it throws,
\* so the extraction never goes on with a page that did not load.
C28_TimeoutThrows ==
    wait # None =>
        /\ wait.pc = "returned" => (wait.result = Some(TRUE) /\ PageLoaded(wait.pageText))
        /\ wait.pc = "extracting" => PageLoaded(wait.pageText)

----------------------------------------------------------------------------
(* analyzeShoppingPatterns                                                  *)

\* C29: what a call of analyzeShoppingPatterns returns is the pattern
\* summary of the database under the given (or default) targetDays and
\* minOrders, as of the time of the call.
C29_ReturnsPatternSummary ==
    call.fn = "analyzeShoppingPatterns" =>
        \E ahead \in {0, 5, 12} :
           call.result = ImportCallback(call.args[1], call.args[2],
                            (LastOrderDay(call.args[1]) + ahead) * HoursPerDay)

====
